---- MODULE Spec2Model ----
(***************************************************************************)
(* Model of the tracker update engine of the dependency system:            *)
(*   io/tracker_io.py      update_tracker, _build_path_migration_map       *)
(*   utils/tracker_utils.py aggregate_all_dependencies, read_tracker_file  *)
(* Tracker files hold key definitions (key -> path) and a grid of          *)
(* run-length encoded rows.  One action models one whole update_tracker    *)
(* call on the tracker files on disk.                                      *)
(***************************************************************************)
EXTENDS Integers, Sequences, FiniteSets, TLC

VARIABLES
    oldMap,     \* old global key map: path -> key string (empty = not loaded)
    newMap,     \* current global key map: path -> key string
    iterOrder,  \* order in which this process iterates the set of tracker paths
    disk,       \* tracker id -> tracker file
    last,       \* record of the most recent update_tracker call
    calls,      \* number of update_tracker calls made so far
    run,        \* progress of an analyze_project run: phase, modules pending, log
    text,       \* tracker id -> the lines of the tracker file as they are on disk
    writer,     \* the write of a tracker file in progress, or the last one
    seen,       \* what another process last read from a tracker file
    backups,    \* the files of the backups directory
    now,        \* the clock that stamps the backups
    events,     \* the file operations of the most recent update_tracker call
    made,       \* every backup ever created: pairs <<tracker file, timestamp>>
    analysis,   \* the analyze_project run: its step, status and report
    cache,      \* the memoized results of read_tracker_file and aggregation
    wcall       \* the most recent write_tracker_file or remove-key call

\* the state of the tracker files as lines of text and of their backups
fileVars == <<text, writer, seen, backups, now, events, made, analysis, cache, wcall>>

vars == <<oldMap, newMap, iterOrder, disk, last, calls, run, text, writer, seen,
          backups, now, events, made, analysis, cache, wcall>>

----------------------------------------------------------------------------
(* Bounds of the model *)

MaxCalls == 1

----------------------------------------------------------------------------
(* Relation characters and their priority *)

DIAGONAL_CHAR == "o"
PLACEHOLDER_CHAR == "p"
EMPTY_CHAR == "P"

Chars == {"p", "s", "S", "n", "d", "<", ">", "x"}

\* ConfigManager.get_char_priority: p < s < S < n < d < {<, >} < x
get_priority(c) ==
    CASE c = "x" -> 7
      [] c = "<" -> 6
      [] c = ">" -> 6
      [] c = "d" -> 5
      [] c = "n" -> 4
      [] c = "S" -> 3
      [] c = "s" -> 2
      [] c = "p" -> 1
      [] OTHER -> 0

NONE == "none"

----------------------------------------------------------------------------
(* Run-length encoding of grid rows: a compressed row is a sequence of     *)
(* runs <<char, count>>                                                    *)

RECURSIVE compressFrom(_, _)
compressFrom(raw, i) ==
    IF i > Len(raw) THEN << >>
    ELSE LET rest == compressFrom(raw, i + 1)
         IN  IF rest # << >> /\ rest[1][1] = raw[i]
             THEN <<  <<raw[i], rest[1][2] + 1>>  >> \o Tail(rest)
             ELSE <<  <<raw[i], 1>>  >> \o rest

compress(raw) == compressFrom(raw, 1)

RECURSIVE decompress(_)
decompress(rle) ==
    IF rle = << >> THEN << >>
    ELSE [j \in 1..rle[1][2] |-> rle[1][1]] \o decompress(Tail(rle))

\* create_initial_grid: row of p with o at the row's own position
InitialRow(keysList, rowKey) ==
    [j \in 1..Len(keysList) |->
        IF keysList[j] = rowKey THEN DIAGONAL_CHAR ELSE PLACEHOLDER_CHAR]

create_initial_grid(keysList) ==
    [k \in {keysList[j] : j \in 1..Len(keysList)} |->
        compress(InitialRow(keysList, k))]

----------------------------------------------------------------------------
(* Key strings and the hierarchical sort *)

\* Tier runs of each key string: digit runs are numbers below 100, letter
\* runs are 100 + position in the alphabet
KeyRuns(k) ==
    CASE k = "1A"  -> <<1, 101>>
      [] k = "1A1" -> <<1, 101, 1>>
      [] k = "1A2" -> <<1, 101, 2>>
      [] k = "1A3" -> <<1, 101, 3>>
      [] k = "1B"  -> <<1, 102>>
      [] k = "1B1" -> <<1, 102, 1>>
      [] k = "2"   -> <<2>>
      [] k = "2A"  -> <<2, 101>>
      [] k = "2A1" -> <<2, 101, 1>>
      [] k = "2A2" -> <<2, 101, 2>>
      [] k = "2B"  -> <<2, 102>>
      [] OTHER -> << >>

RECURSIVE RunsLess(_, _, _)
RunsLess(a, b, i) ==
    IF i > Len(a) THEN i <= Len(b)
    ELSE IF i > Len(b) THEN FALSE
    ELSE IF a[i] # b[i] THEN a[i] < b[i]
    ELSE RunsLess(a, b, i + 1)

KeyLess(a, b) == RunsLess(KeyRuns(a), KeyRuns(b), 1)

RECURSIVE sort_key_strings_hierarchically(_)
sort_key_strings_hierarchically(S) ==
    IF S = {} THEN << >>
    ELSE LET m == CHOOSE k \in S : \A j \in S \ {k} : KeyLess(k, j)
         IN  <<m>> \o sort_key_strings_hierarchically(S \ {m})

\* _is_file_key: the key string ends with a digit
_is_file_key(k) ==
    LET r == KeyRuns(k) IN r # << >> /\ r[Len(r)] < 100

IndexOf(seq, k) == CHOOSE j \in 1..Len(seq) : seq[j] = k

SeqSet(seq) == {seq[j] : j \in 1..Len(seq)}

----------------------------------------------------------------------------
(* The project tree: KeyInfo fields that depend on the path only *)

CodeRoots == {"src", "lib"}
DocRoots == {"docs"}

AllPaths == {"src", "src/a.py", "src/a_new.py", "src/b.py",
             "lib", "lib/c.py",
             "docs", "docs/g", "docs/g/x.md", "docs/g/y.md", "docs/h"}

\* KeyInfo.is_directory
is_directory(p) == p \in {"src", "lib", "docs", "docs/g", "docs/h"}

\* KeyInfo.parent_path
parent_path(p) ==
    CASE p \in {"src/a.py", "src/a_new.py", "src/b.py"} -> "src"
      [] p = "lib/c.py" -> "lib"
      [] p \in {"docs/g", "docs/h"} -> "docs"
      [] p \in {"docs/g/x.md", "docs/g/y.md"} -> "docs/g"
      [] OTHER -> NONE

\* path_utils.is_subpath(path, parent): path lies under parent
RECURSIVE is_subpath(_, _)
is_subpath(path, parent) ==
    path = parent \/
    (parent_path(path) # NONE /\ is_subpath(parent_path(path), parent))

\* is_path_in_doc_roots (update_tracker, local helper)
is_path_in_doc_roots(p) == \E r \in DocRoots : is_subpath(p, r) \/ p = r

EmptyMap == [x \in {} |-> NONE]

Get(f, x) == IF x \in DOMAIN f THEN f[x] ELSE NONE

\* path of a key string in a global map (next(info for ... if key_string == k))
PathOfKey(map, k) ==
    IF \E p \in DOMAIN map : map[p] = k
    THEN CHOOSE p \in DOMAIN map : map[p] = k
    ELSE NONE

KeysOf(map) == {map[p] : p \in DOMAIN map}

----------------------------------------------------------------------------
(* _build_path_migration_map: path -> <<old_key, new_key>> *)

\* a removed path is paired with an added path of the same directory, as if
\* the file had been renamed
_build_path_migration_map_Renames(old_global_map, new_global_map) ==
    LET old_paths == DOMAIN old_global_map
        new_paths == DOMAIN new_global_map
        renamedTo(p) == {q \in new_paths \ old_paths : parent_path(q) = parent_path(p)}
    IN  [p \in old_paths \cup new_paths |->
            IF p \in old_paths /\ p \in new_paths
            THEN <<old_global_map[p], new_global_map[p]>>
            ELSE IF p \in old_paths
            THEN <<old_global_map[p],
                   IF renamedTo(p) = {} THEN NONE
                   ELSE new_global_map[CHOOSE q \in renamedTo(p) : TRUE]>>
            ELSE <<NONE, new_global_map[p]>>]

_build_path_migration_map(old_global_map, new_global_map) ==
    LET hasOld == DOMAIN old_global_map # {}
        old_paths == DOMAIN old_global_map
        new_paths == DOMAIN new_global_map
        stable_paths == IF hasOld THEN old_paths \cap new_paths ELSE new_paths
        removed_paths == IF hasOld THEN old_paths \ new_paths ELSE {}
        added_paths == IF hasOld THEN new_paths \ old_paths ELSE {}
    IN  [p \in stable_paths \cup removed_paths \cup added_paths |->
            IF p \in stable_paths
            THEN <<Get(old_global_map, p), new_global_map[p]>>
            ELSE IF p \in removed_paths
            THEN <<old_global_map[p], NONE>>
            ELSE <<NONE, new_global_map[p]>>]

\* new key of the path a tracker defines for a key (NONE when the path is not
\* in the migration map or has no new key)
NewKeyOfPath(pmi, path) ==
    IF path \in DOMAIN pmi THEN pmi[path][2] ELSE NONE

----------------------------------------------------------------------------
(* Tracker files *)

Trackers == {"main", "doc", "mini_src", "mini_lib"}

NoFile == [exists |-> FALSE, keys |-> EmptyMap, grid |-> EmptyMap]

\* read_tracker_file / _read_existing_keys / _read_existing_grid
read_tracker_file(d, t) ==
    IF d[t].exists THEN [keys |-> d[t].keys, grid |-> d[t].grid]
    ELSE [keys |-> EmptyMap, grid |-> EmptyMap]

\* character a tracker file holds at (rowKey, colKey), as the readers index it:
\* the row decompressed, the column by position in the sorted definition keys;
\* NONE when the row is missing or has the wrong length
FileChar(file, rowKey, colKey) ==
    LET keysList == sort_key_strings_hierarchically(DOMAIN file.keys)
    IN  IF rowKey \notin DOMAIN file.grid \/ colKey \notin DOMAIN file.keys
        THEN NONE
        ELSE LET row == decompress(file.grid[rowKey])
             IN  IF Len(row) # Len(keysList) THEN NONE
                 ELSE row[IndexOf(keysList, colKey)]

\* get_tracker_path for a mini tracker of a module directory
MiniTrackerOf(module) ==
    CASE module = "src" -> "mini_src"
      [] module = "lib" -> "mini_lib"
      [] OTHER -> NONE

ModuleOf(t) == IF t = "mini_src" THEN "src" ELSE IF t = "mini_lib" THEN "lib" ELSE NONE

----------------------------------------------------------------------------
(* aggregate_all_dependencies *)

old_key_to_stable_path(pmi) ==
    [k \in {pmi[p][1] : p \in DOMAIN pmi} \ {NONE} |->
        CHOOSE p \in DOMAIN pmi : pmi[p][1] = k]

\* a resolution that takes the key found in the grid for a current key
CurrentKeyOfOldKey_Unvalidated(okp, pmi, k) == k

\* current key of a key found in a tracker grid, through the old global keys
CurrentKeyOfOldKey(okp, pmi, k) ==
    IF k \in DOMAIN okp THEN pmi[okp[k]][2] ELSE NONE

\* the links one tracker contributes: set of <<current_row, current_col, char>>
TrackerLinks(file, pmi, okp) ==
    LET keysList == sort_key_strings_hierarchically(DOMAIN file.keys)
    IN  IF DOMAIN file.grid = {} \/ DOMAIN file.keys = {} THEN {}
        ELSE UNION { LET row == decompress(file.grid[rk])
                         cr == CurrentKeyOfOldKey(okp, pmi, rk)
                     IN  IF cr = NONE \/ Len(row) # Len(keysList) THEN {}
                         ELSE { <<cr, CurrentKeyOfOldKey(okp, pmi, keysList[j]), row[j]>> :
                                  j \in { i \in 1..Len(row) :
                                            /\ row[i] \notin {DIAGONAL_CHAR, EMPTY_CHAR}
                                            /\ keysList[i] # rk
                                            /\ CurrentKeyOfOldKey(okp, pmi, keysList[i]) # NONE } }
                   : rk \in DOMAIN file.grid }

\* one tracker folded into the aggregated links
AggregateOne(acc, links, t) ==
    LET newLinks == {<<l[1], l[2]>> : l \in links}
        charOf(link) == (CHOOSE l \in links : l[1] = link[1] /\ l[2] = link[2])[3]
    IN  [link \in DOMAIN acc \cup newLinks |->
            IF link \notin newLinks THEN acc[link]
            ELSE IF link \notin DOMAIN acc THEN <<charOf(link), {t}>>
            ELSE LET dep_char == charOf(link)
                     existing_char == acc[link][1]
                 IN  IF get_priority(dep_char) > get_priority(existing_char)
                     THEN <<dep_char, {t}>>
                     ELSE IF get_priority(dep_char) = get_priority(existing_char)
                     THEN IF dep_char = existing_char
                          THEN <<dep_char, acc[link][2] \cup {t}>>
                          ELSE <<dep_char, {t}>>
                     ELSE acc[link]]

RECURSIVE AggregateFrom(_, _, _, _, _, _)
AggregateFrom(d, order, i, pmi, okp, acc) ==
    IF i > Len(order) THEN acc
    ELSE AggregateFrom(d, order, i + 1, pmi, okp,
            AggregateOne(acc, TrackerLinks(read_tracker_file(d, order[i]), pmi, okp),
                         order[i]))

\* tracker_paths is given as the sequence in which the set is iterated
aggregate_all_dependencies(d, order, pmi) ==
    AggregateFrom(d, order, 1, pmi, old_key_to_stable_path(pmi),
                  [x \in {} |-> <<NONE, {}>>])

\* find_all_tracker_paths: the tracker files that exist
find_all_tracker_paths(d) == {t \in Trackers : d[t].exists}

----------------------------------------------------------------------------
(* update_tracker: which keys a tracker holds *)

TypeOf(t) == IF t \in {"main", "doc"} THEN t ELSE "mini"

\* suggestions are a dict source -> list of (target, char); the model keeps
\* them as a sequence of [src, tgt, ch] and iterates it as the dict does,
\* grouped by source in order of first appearance
RECURSIVE GroupBySource(_)
GroupBySource(seq) ==
    IF seq = << >> THEN << >>
    ELSE LET s == seq[1].src
         IN  SelectSeq(seq, LAMBDA e : e.src = s) \o
             GroupBySource(SelectSeq(seq, LAMBDA e : e.src # s))

min_positive_priority ==
    IF get_priority("s") <= 1 THEN 2 ELSE get_priority("s")

\* main_tracker_data["key_filter"]: the module directories
MainPaths(new) == {p \in DOMAIN new : p \in CodeRoots}

\* doc_tracker_data["file_inclusion"]: every path under the doc roots
DocPaths(new) == {p \in DOMAIN new : is_path_in_doc_roots(p)}

\* mini tracker: internal_keys_info
InternalPaths(new, module) ==
    {p \in DOMAIN new : parent_path(p) = module \/ p = module}

\* a scan that keeps a foreign key for a link with any internal key, directory
\* keys included
PersistedForeignKeys_AnyKind(file, internal_keys_set) ==
    {ck \in DOMAIN file.keys \ internal_keys_set :
        \E rk \in internal_keys_set \cap DOMAIN file.keys :
            \E c \in {FileChar(file, rk, ck), FileChar(file, ck, rk)} :
                c \notin {NONE, "n"} /\ get_priority(c) >= min_positive_priority}

\* mini tracker: foreign file keys persisted from the existing grid
PersistedForeignKeys(file, internal_keys_set) ==
    LET keysList == sort_key_strings_hierarchically(DOMAIN file.keys)
    IN  IF DOMAIN file.grid = {} \/ DOMAIN file.keys = {} THEN {}
        ELSE UNION { LET row == decompress(file.grid[rk])
                     IN  IF rk \notin DOMAIN file.keys \/ Len(row) # Len(keysList) THEN {}
                         ELSE UNION { LET ck == keysList[j]
                                          dep_char == row[j]
                                      IN  IF /\ ck # rk
                                             /\ dep_char # "n"
                                             /\ get_priority(dep_char) >= min_positive_priority
                                             /\ _is_file_key(rk) /\ _is_file_key(ck)
                                          THEN IF rk \in internal_keys_set /\ ck \notin internal_keys_set
                                               THEN {ck}
                                               ELSE IF rk \notin internal_keys_set /\ ck \in internal_keys_set
                                               THEN {rk}
                                               ELSE {}
                                          ELSE {}
                                    : j \in 1..Len(row) }
                   : rk \in DOMAIN file.grid }

\* mini tracker: foreign keys implicated by the incoming suggestions
SuggestedForeignKeys(raw, new, internal_keys_set) ==
    LET strong == {raw[i] : i \in {j \in 1..Len(raw) :
                        get_priority(raw[j].ch) >= min_positive_priority}}
    IN  {e.tgt : e \in {x \in strong : x.src \in internal_keys_set
                                       /\ PathOfKey(new, x.tgt) # NONE}}
        \cup
        {e.src : e \in {x \in strong : x.tgt \in internal_keys_set
                                       /\ PathOfKey(new, x.src) # NONE}}

\* mini tracker: validated relevant keys
MiniRelevantKeys(file, raw, new, module, keys_to_explicitly_remove) ==
    LET internal_keys_set == {new[p] : p \in InternalPaths(new, module)}
        relevant == internal_keys_set
                    \cup PersistedForeignKeys(file, internal_keys_set)
                    \cup SuggestedForeignKeys(raw, new, internal_keys_set)
    IN  {k \in relevant : PathOfKey(new, k) # NONE} \ keys_to_explicitly_remove

\* final_key_defs: key string -> path
final_key_defs(file, t, raw, new, keys_to_explicitly_remove) ==
    LET ks == CASE TypeOf(t) = "main" -> {new[p] : p \in MainPaths(new)}
                [] TypeOf(t) = "doc" -> {new[p] : p \in DocPaths(new)}
                [] OTHER -> MiniRelevantKeys(file, raw, new, ModuleOf(t),
                                             keys_to_explicitly_remove)
    IN  [k \in ks |-> PathOfKey(new, k)]

\* MainAggregator: module-level relations from the aggregated file links
MainAggregation(links, new) ==
    LET mods == MainPaths(new)
        modOf(k) == LET p == PathOfKey(new, k)
                    IN  IF p # NONE /\ ~is_directory(p) THEN parent_path(p) ELSE NONE
        cross == {l \in DOMAIN links :
                    /\ links[l][1] \notin {PLACEHOLDER_CHAR, DIAGONAL_CHAR}
                    /\ modOf(l[1]) \in mods /\ modOf(l[2]) \in mods
                    /\ modOf(l[1]) # modOf(l[2])}
        pairs == {<<modOf(l[1]), modOf(l[2])>> : l \in cross}
        best(pr) == LET cs == {links[l][1] : l \in {x \in cross :
                                   <<modOf(x[1]), modOf(x[2])>> = pr}}
                    IN  CHOOSE c \in cs : \A c2 \in cs :
                            get_priority(c) >= get_priority(c2)
        srcs == sort_key_strings_hierarchically({new[pr[1]] : pr \in pairs})
        tgts(sk) == sort_key_strings_hierarchically(
                        {new[pr[2]] : pr \in {x \in pairs : new[x[1]] = sk}})
        RECURSIVE build(_, _)
        build(i, j) ==
            IF i > Len(srcs) THEN << >>
            ELSE IF j > Len(tgts(srcs[i])) THEN build(i + 1, 1)
            ELSE << [src |-> srcs[i],
                     ch |-> best(<<PathOfKey(new, srcs[i]),
                                   PathOfKey(new, tgts(srcs[i])[j])>>),
                     tgt |-> tgts(srcs[i])[j]] >>
                 \o build(i, j + 1)
    IN  build(1, 1)

\* final_suggestions_to_apply
final_suggestions(t, raw, force, defs, new, aggLinks) ==
    LET inDefs(e) == e.src \in DOMAIN defs /\ e.tgt \in DOMAIN defs
    IN  CASE TypeOf(t) = "main" ->
                IF force THEN GroupBySource(SelectSeq(raw, inDefs))
                ELSE SelectSeq(MainAggregation(aggLinks, new), inDefs)
          [] TypeOf(t) = "doc" -> GroupBySource(SelectSeq(raw, inDefs))
          [] OTHER ->
                GroupBySource(SelectSeq(raw, LAMBDA e :
                    /\ PathOfKey(new, e.src) # NONE
                    /\ inDefs(e)
                    /\ e.src # e.tgt
                    /\ e.ch # PLACEHOLDER_CHAR))

----------------------------------------------------------------------------
(* update_tracker: the grid steps.  The working grid (temp_decomp_grid) is *)
(* a function on pairs of final keys.                                      *)

\* a new grid structure without the diagonal marks
InitialGrid_NoDiagonal(K) ==
    [c \in K \X K |-> PLACEHOLDER_CHAR]

\* new grid structure: o on the diagonal, p elsewhere
InitialGrid(K) ==
    [c \in K \X K |-> IF c[1] = c[2] THEN DIAGONAL_CHAR ELSE PLACEHOLDER_CHAR]

\* a value of the old grid is a candidate for copying
IsCopiedValue(value) ==
    value \notin {DIAGONAL_CHAR, PLACEHOLDER_CHAR, EMPTY_CHAR}

\* the old cells that carry a value to copy, as <<new row key, new column
\* key, row position, column index, value>>; the positions give the order in
\* which the copy loop visits them
MigrationSources(existing, pmi) ==
    LET old_keys_list_sorted == sort_key_strings_hierarchically(DOMAIN existing.keys)
        rowOrder == sort_key_strings_hierarchically(DOMAIN existing.grid)
        newKey == [k \in DOMAIN existing.keys |-> NewKeyOfPath(pmi, existing.keys[k])]
    IN  UNION { LET rk == rowOrder[i]
                    row == decompress(existing.grid[rk])
                IN  IF \/ rk \notin DOMAIN existing.keys
                       \/ newKey[rk] = NONE
                       \/ Len(row) # Len(old_keys_list_sorted)
                    THEN {}
                    ELSE { <<newKey[rk], newKey[old_keys_list_sorted[j]], i, j, row[j]>> :
                             j \in { c \in 1..Len(row) :
                                 /\ IsCopiedValue(row[c])
                                 /\ newKey[old_keys_list_sorted[c]] # NONE } }
              : i \in 1..Len(rowOrder) }

\* which of the candidates ends up in the cell: the copy is made only while
\* the target is still p, so the first one visited stays
MigratedValue(sources) ==
    IF sources = {} THEN PLACEHOLDER_CHAR
    ELSE (CHOOSE s \in sources : \A s2 \in sources :
              s[3] < s2[3] \/ (s[3] = s2[3] /\ s[4] <= s2[4]))[5]

\* copy old values through the path migration map
MigrateGrid(existing, pmi, K) ==
    LET sources == MigrationSources(existing, pmi)
        temp_decomp_grid == InitialGrid(K)
    IN  [c \in K \X K |->
            IF c[1] = c[2] \/ temp_decomp_grid[c] # PLACEHOLDER_CHAR
            THEN temp_decomp_grid[c]
            ELSE MigratedValue({s \in sources : s[1] = c[1] /\ s[2] = c[2]})]

\* the ancestor rule for direct children only
StructuralChar_DirectChild(type, rowPath, colPath) ==
    IF parent_path(colPath) = rowPath THEN "x"
    ELSE IF type = "doc" THEN "n"
    ELSE NONE

\* structural rule for a directory row and another key
StructuralChar(type, rowPath, colPath) ==
    IF is_subpath(colPath, rowPath) THEN "x"
    ELSE IF type = "doc" THEN "n"
    ELSE NONE

\* structural_deps, built row by row over the sorted final keys
RECURSIVE StructuralDeps(_, _, _, _, _, _)
StructuralDeps(type, keysList, defs, i, j, acc) ==
    IF i > Len(keysList) THEN acc
    ELSE IF j > Len(keysList) \/ ~is_directory(defs[keysList[i]])
    THEN StructuralDeps(type, keysList, defs, i + 1, 1, acc)
    ELSE LET row_key == keysList[i]
             col_key == keysList[j]
             ch == StructuralChar(type, defs[row_key], defs[col_key])
         IN  IF row_key = col_key \/ acc[<<row_key, col_key>>] # NONE \/ ch = NONE
             THEN StructuralDeps(type, keysList, defs, i, j + 1, acc)
             ELSE StructuralDeps(type, keysList, defs, i, j + 1,
                     [acc EXCEPT ![<<row_key, col_key>>] = ch,
                                 ![<<col_key, row_key>>] = ch])

\* only the ancestor rule is applied
ApplyStructural_AncestorsOnly(type, g, keysList, defs) ==
    IF type \notin {"doc", "mini"} THEN g
    ELSE LET K == SeqSet(keysList)
             deps == StructuralDeps(type, keysList, defs, 1, 1,
                                    [c \in K \X K |-> NONE])
         IN  [c \in K \X K |->
                IF c[1] # c[2] /\ deps[c] = "x" /\ g[c] = PLACEHOLDER_CHAR
                THEN deps[c] ELSE g[c]]

\* structural rules are applied to placeholder cells only
ApplyStructural(type, g, keysList, defs) ==
    IF type \notin {"doc", "mini"} THEN g
    ELSE LET K == SeqSet(keysList)
             deps == StructuralDeps(type, keysList, defs, 1, 1,
                                    [c \in K \X K |-> NONE])
         IN  [c \in K \X K |->
                IF c[1] # c[2] /\ deps[c] # NONE /\ g[c] = PLACEHOLDER_CHAR
                THEN deps[c] ELSE g[c]]

\* the character a home tracker holds between two paths, located through the
\* home tracker's own definitions; p when it cannot be read
HomeChar(home, rowPath, colPath) ==
    LET rk == PathOfKey(home.keys, rowPath)
        ck == PathOfKey(home.keys, colPath)
        ch == FileChar(home, rk, ck)
    IN  IF ch = NONE THEN PLACEHOLDER_CHAR ELSE ch

\* home tracker of a native/foreign pair: the foreign key's own tracker
NativeForeignHome(foreignPath) ==
    IF is_path_in_doc_roots(foreignPath) THEN "doc"
    ELSE IF parent_path(foreignPath) # NONE
    THEN MiniTrackerOf(parent_path(foreignPath))
    ELSE NONE

\* home tracker shared by a foreign/foreign pair
ForeignForeignHome(path1, path2, module) ==
    IF is_path_in_doc_roots(path1) /\ is_path_in_doc_roots(path2) THEN "doc"
    ELSE IF /\ ~is_path_in_doc_roots(path1) /\ ~is_path_in_doc_roots(path2)
            /\ parent_path(path1) # NONE /\ parent_path(path1) = parent_path(path2)
            /\ parent_path(path1) # module
    THEN MiniTrackerOf(parent_path(path1))
    ELSE NONE

\* the home tracker can be used for a pair of paths
HomeUsable(d, h, path1, path2) ==
    /\ h # NONE
    /\ d[h].exists
    /\ DOMAIN d[h].grid # {} /\ DOMAIN d[h].keys # {}
    /\ PathOfKey(d[h].keys, path1) # NONE
    /\ PathOfKey(d[h].keys, path2) # NONE

\* native/foreign import rule
ImportShouldUpdate(home_char, current_char) ==
    /\ home_char # PLACEHOLDER_CHAR
    /\ \/ get_priority(home_char) > get_priority(current_char)
       \/ (home_char = "n" /\ current_char \in {"p", "s", "S"})

OVERWRITABLE_CHARS == {"p", "s", "S", "n"}
POSITIVE_IMPORT_CHARS == {"<", ">", "x", "d"}

\* foreign/foreign import rule
ForeignForeignFinal(current_char, home_char) ==
    IF current_char \in OVERWRITABLE_CHARS /\ home_char \in POSITIVE_IMPORT_CHARS
    THEN home_char
    ELSE IF current_char \in {"p", "s", "S"} /\ home_char = "n" THEN home_char
    ELSE IF current_char = PLACEHOLDER_CHAR /\ home_char = PLACEHOLDER_CHAR THEN "n"
    ELSE current_char

\* import established relationships into a mini tracker
ImportGrid(d, type, module, g, K, defs) ==
    IF type # "mini" THEN g
    ELSE LET native(k) == parent_path(defs[k]) = module \/ defs[k] = module
         IN  [c \in K \X K |->
                IF c[1] = c[2] THEN g[c]
                ELSE LET p1 == defs[c[1]]
                         p2 == defs[c[2]]
                     IN  IF native(c[1]) /\ native(c[2]) THEN g[c]
                         ELSE IF native(c[1]) # native(c[2])
                         THEN LET h == NativeForeignHome(IF native(c[1]) THEN p2 ELSE p1)
                              IN  IF HomeUsable(d, h, p1, p2)
                                     /\ ImportShouldUpdate(HomeChar(d[h], p1, p2), g[c])
                                  THEN HomeChar(d[h], p1, p2)
                                  ELSE g[c]
                         ELSE LET h == ForeignForeignHome(p1, p2, module)
                              IN  IF HomeUsable(d, h, p1, p2)
                                  THEN ForeignForeignFinal(g[c], HomeChar(d[h], p1, p2))
                                  ELSE g[c]]

----------------------------------------------------------------------------
(* update_tracker: suggestions *)

\* a suggestion is applied over any different character, forced or not
should_apply_suggestion_AnyDifferent(force_apply_suggestions, existing_char_in_grid, dep_char) ==
    dep_char # PLACEHOLDER_CHAR /\ existing_char_in_grid # dep_char

\* whether a suggestion dep_char is applied over existing_char_in_grid
should_apply_suggestion(force_apply_suggestions, existing_char_in_grid, dep_char) ==
    IF force_apply_suggestions
    THEN dep_char # PLACEHOLDER_CHAR /\ existing_char_in_grid # dep_char
    ELSE \/ (existing_char_in_grid = PLACEHOLDER_CHAR /\ dep_char # PLACEHOLDER_CHAR)
         \/ /\ existing_char_in_grid \notin {PLACEHOLDER_CHAR, DIAGONAL_CHAR}
            /\ existing_char_in_grid # dep_char
            /\ existing_char_in_grid # "n"
            /\ get_priority(dep_char) > get_priority(existing_char_in_grid)

\* whether the reciprocal character is written into the reverse cell
should_apply_reciprocal(force_apply_suggestions, char_in_reverse, reciprocal_char) ==
    IF force_apply_suggestions
    THEN char_in_reverse # "x" /\ char_in_reverse # reciprocal_char
    ELSE \/ char_in_reverse = PLACEHOLDER_CHAR
         \/ get_priority(reciprocal_char) > get_priority(char_in_reverse)

ReciprocalOf(dep_char) ==
    IF dep_char = ">" THEN "<" ELSE IF dep_char = "<" THEN ">" ELSE NONE

\* the debug message of the forced branch reads col_key, which is bound only
\* by the loops of the mini key scan and of the structural rules
col_key_bound(type, existing, defs) ==
    \/ /\ type = "mini"
       /\ \E rk \in DOMAIN existing.grid :
            /\ rk \in DOMAIN existing.keys
            /\ Len(decompress(existing.grid[rk])) = Cardinality(DOMAIN existing.keys)
    \/ /\ type \in {"doc", "mini"}
       /\ \E k \in DOMAIN defs : is_directory(defs[k])

\* one suggestion applied to the grid; st = [g, raised, applied, manual]:
\* applied is suggestion_applied, manual says that a forced suggestion changed
\* its own cell (applied_manual_source, _targets and _dep_type are set)
ApplySuggestion(st, e, force, bound) ==
    LET g == st.g
        fwd == <<e.src, e.tgt>>
        rev == <<e.tgt, e.src>>
        existing_char_in_grid == g[fwd]
    IN  IF st.raised \/ e.src = e.tgt THEN st
        ELSE IF force /\ should_apply_suggestion(force, existing_char_in_grid, e.ch) /\ ~bound
        THEN [st EXCEPT !.raised = TRUE]
        ELSE IF should_apply_suggestion(force, existing_char_in_grid, e.ch)
        THEN LET upgrade_to_x == e.ch \in {"<", ">"} /\ g[rev] = e.ch
                 final_char_to_apply == IF upgrade_to_x THEN "x" ELSE e.ch
                 g1 == IF upgrade_to_x THEN [g EXCEPT ![rev] = "x"] ELSE g
                 g2 == IF existing_char_in_grid # final_char_to_apply
                       THEN [g1 EXCEPT ![fwd] = final_char_to_apply] ELSE g1
                 reciprocal_char == ReciprocalOf(e.ch)
                 reciprocal == /\ ~upgrade_to_x
                               /\ reciprocal_char # NONE
                               /\ should_apply_reciprocal(force, g2[rev], reciprocal_char)
                 g3 == IF reciprocal THEN [g2 EXCEPT ![rev] = reciprocal_char] ELSE g2
                 applied_this_iter == existing_char_in_grid # final_char_to_apply
             IN  [st EXCEPT !.g = g3,
                            !.applied = @ \/ upgrade_to_x \/ applied_this_iter
                                          \/ reciprocal,
                            !.manual = @ \/ (force /\ applied_this_iter)]
        ELSE IF /\ ~force
                /\ existing_char_in_grid \notin {PLACEHOLDER_CHAR, DIAGONAL_CHAR}
                /\ existing_char_in_grid # e.ch
                /\ existing_char_in_grid # "n"
                /\ get_priority(e.ch) > get_priority(existing_char_in_grid)
        THEN [st EXCEPT !.g = [g EXCEPT ![fwd] = e.ch], !.applied = TRUE]
        ELSE st

RECURSIVE ApplySuggestions(_, _, _, _, _)
ApplySuggestions(st, suggs, i, force, bound) ==
    IF i > Len(suggs) THEN st
    ELSE ApplySuggestions(ApplySuggestion(st, suggs[i], force, bound),
                          suggs, i + 1, force, bound)

----------------------------------------------------------------------------
(* update_tracker: consolidation and write *)

\* whether the globally winning character replaces the local one
\* a comparison that also replaces a cell of equal priority
ConsolidationUpdates_NotLower(authoritative_char, current_char) ==
    /\ authoritative_char # PLACEHOLDER_CHAR
    /\ authoritative_char # current_char
    /\ get_priority(authoritative_char) >= get_priority(current_char)

ConsolidationUpdates(authoritative_char, current_char) ==
    /\ authoritative_char # PLACEHOLDER_CHAR
    /\ \/ get_priority(authoritative_char) > get_priority(current_char)
       \/ (authoritative_char = "n" /\ current_char \in {"p", "s", "S"})

Authoritative(links, cell) ==
    IF cell \in DOMAIN links THEN links[cell][1] ELSE PLACEHOLDER_CHAR

ConsolidateGrid(g, K, links) ==
    [c \in K \X K |->
        IF c[1] # c[2] /\ ConsolidationUpdates(Authoritative(links, c), g[c])
        THEN Authoritative(links, c) ELSE g[c]]

\* _write_grid: rows in sorted key order, compressed; a row that does not
\* decompress to the expected length is written as an initial row
_write_grid(keysList, final_grid) ==
    [k \in SeqSet(keysList) |->
        IF k \in DOMAIN final_grid
           /\ Len(decompress(final_grid[k])) = Len(keysList)
        THEN final_grid[k]
        ELSE compress(InitialRow(keysList, k))]

\* the file as written: definitions and grid
WriteFile(defs, keysList, g) ==
    [exists |-> TRUE,
     keys |-> defs,
     grid |-> _write_grid(keysList,
                 [k \in SeqSet(keysList) |->
                     compress([j \in 1..Len(keysList) |-> g[<<k, keysList[j]>>]])])]

\* the file a missing tracker is created as (create_mini_tracker or
\* write_tracker_file with an initial grid)
CreatedFile(defs, keysList) ==
    [exists |-> TRUE, keys |-> defs,
     grid |-> _write_grid(keysList, create_initial_grid(keysList))]

----------------------------------------------------------------------------
(* update_tracker, the whole call.  order is the sequence in which the set *)
(* of tracker paths is iterated by the aggregation.                        *)

\* the trackers of the iteration order whose file exists
ExistingTrackers(d, order) == SelectSeq(order, LAMBDA x : d[x].exists)

\* the arguments of a call and what it reads before the keys are determined
ReadInputs(d, old, new, t, raw, force, order, keys_to_explicitly_remove) ==
    [d |-> d, new |-> new, t |-> t, raw |-> raw, force |-> force,
     order |-> order, remove |-> keys_to_explicitly_remove,
     type |-> TypeOf(t), module |-> ModuleOf(t),
     onDisk |-> read_tracker_file(d, t),
     pmi |-> _build_path_migration_map(old, new)]

\* key definitions of the tracker; the main tracker aggregates the links of
\* all trackers unless the call is forced
DetermineKeys(c) ==
    c @@ [defs |-> final_key_defs(c.onDisk, c.t, c.raw, c.new, c.remove),
          mainLinks |-> IF c.type = "main" /\ ~c.force
                        THEN aggregate_all_dependencies(
                                 c.d, ExistingTrackers(c.d, c.order), c.pmi)
                        ELSE [x \in {} |-> <<NONE, {}>>]]

\* suggestions to apply, sorted keys, and the file created when there is none
DetermineSuggestions(c) ==
    c @@ [keysList |-> sort_key_strings_hierarchically(DOMAIN c.defs),
          suggs |-> final_suggestions(c.t, c.raw, c.force, c.defs, c.new,
                                      c.mainLinks),
          d1 |-> IF c.d[c.t].exists THEN c.d
                 ELSE [c.d EXCEPT ![c.t] =
                          CreatedFile(c.defs,
                              sort_key_strings_hierarchically(DOMAIN c.defs))]]

Migrated(c) ==
    c @@ [gMig |-> MigrateGrid(read_tracker_file(c.d1, c.t), c.pmi, DOMAIN c.defs)]

Structured(c) ==
    c @@ [gStruct |-> ApplyStructural(c.type, c.gMig, c.keysList, c.defs)]

Imported(c) ==
    c @@ [gImp |-> ImportGrid(c.d1, c.type, c.module, c.gStruct, DOMAIN c.defs,
                              c.defs)]

Suggested(c) ==
    c @@ [sugg |-> ApplySuggestions([g |-> c.gImp, raised |-> FALSE,
                                     applied |-> FALSE, manual |-> FALSE],
                                    c.suggs, 1,
                                    c.force,
                                    col_key_bound(c.type, c.onDisk, c.defs))]

Aggregated(c) ==
    c @@ [links |-> aggregate_all_dependencies(
                        c.d1, ExistingTrackers(c.d1, c.order), c.pmi)]

Consolidated(c) ==
    c @@ [gCons |-> ConsolidateGrid(c.sugg.g, DOMAIN c.defs, c.links)]

\* last_GRID_edit: the manual message, the content message, the structure
\* message, or the line as it was
final_last_grid_edit(c) ==
    LET consolidation_changes ==
            {x \in (DOMAIN c.defs) \X (DOMAIN c.defs) :
                /\ x[1] # x[2]
                /\ ConsolidationUpdates(Authoritative(c.links, x), c.sugg.g[x])}
        grid_content_changed == c.sugg.applied \/ consolidation_changes # {}
        grid_structure_changed ==
            DOMAIN c.defs # DOMAIN read_tracker_file(c.d1, c.t).keys
    IN  IF c.force /\ c.sugg.applied /\ c.sugg.manual THEN "manual"
        ELSE IF grid_content_changed THEN "content"
        ELSE IF grid_structure_changed THEN "structure"
        ELSE "unchanged"

\* the stages of the call and the disk it leaves; nothing is written when the
\* suggestion step raised
Finished(c) ==
    [t |-> c.t, type |-> c.type, force |-> c.force, raw |-> c.raw,
     suggs |-> c.suggs, prior |-> c.d[c.t], pmi |-> c.pmi, defs |-> c.defs,
     keysList |-> c.keysList, gMig |-> c.gMig, gStruct |-> c.gStruct,
     gImp |-> c.gImp, gSugg |-> c.sugg.g, gCons |-> c.gCons, links |-> c.links,
     raised |-> c.sugg.raised, wrote |-> ~c.sugg.raised,
     gridEdit |-> final_last_grid_edit(c),
     disk |-> IF c.sugg.raised THEN c.d1
              ELSE [c.d1 EXCEPT ![c.t] = WriteFile(c.defs, c.keysList, c.gCons)]]

update_tracker(d, old, new, t, raw, force, order, keys_to_explicitly_remove) ==
    Finished(Consolidated(Aggregated(Suggested(Imported(Structured(Migrated(
        DetermineSuggestions(DetermineKeys(
            ReadInputs(d, old, new, t, raw, force, order,
                       keys_to_explicitly_remove))))))))))

----------------------------------------------------------------------------
(* Initial states: the global maps of a run and the tracker files that an *)
(* earlier run, set_char or a manual edit left on disk                     *)

BaseMap ==
    [p \in {"src", "src/a.py", "src/b.py", "lib", "lib/c.py",
            "docs", "docs/g", "docs/g/x.md", "docs/g/y.md", "docs/h"} |->
        CASE p = "src" -> "1A"
          [] p = "src/a.py" -> "1A1"
          [] p = "src/b.py" -> "1A2"
          [] p = "lib" -> "1B"
          [] p = "lib/c.py" -> "1B1"
          [] p = "docs" -> "2"
          [] p = "docs/g" -> "2A"
          [] p = "docs/g/x.md" -> "2A1"
          [] p = "docs/g/y.md" -> "2A2"
          [] OTHER -> "2B"]

\* src/a_new.py was added: src/b.py moves from 1A2 to 1A3
AddedMap ==
    [p \in DOMAIN BaseMap \cup {"src/a_new.py"} |->
        CASE p = "src/a_new.py" -> "1A2"
          [] p = "src/b.py" -> "1A3"
          [] OTHER -> BaseMap[p]]

\* src/a.py was renamed to src/a_new.py and keyed 1A3
RenamedMap ==
    [p \in (DOMAIN BaseMap \ {"src/a.py"}) \cup {"src/a_new.py"} |->
        IF p = "src/a_new.py" THEN "1A3" ELSE BaseMap[p]]

\* <<old map, new map, map the tracker files on disk are keyed by>>
Scenarios ==
    { <<BaseMap, BaseMap, BaseMap>>,
      <<EmptyMap, BaseMap, BaseMap>>,
      <<BaseMap, AddedMap, BaseMap>>,
      <<BaseMap, AddedMap, AddedMap>>,
      <<BaseMap, RenamedMap, BaseMap>> }

\* characters seeded into a pair of opposite cells of each tracker
SeedPairs == { <<"p", "p">>, <<"n", "p">>, <<"p", "n">>,
               <<"<", "<">>, <<">", "p">>, <<">", "<">>, <<"p", "s">> }

\* a tracker file over the given paths whose rows are well formed
MakeFile(map, paths, cells) ==
    LET defs == [k \in {map[p] : p \in paths} |-> PathOfKey(map, k)]
        keysList == sort_key_strings_hierarchically(DOMAIN defs)
    IN  [exists |-> TRUE, keys |-> defs,
         grid |-> [k \in DOMAIN defs |->
                    compress([j \in 1..Len(keysList) |->
                        IF keysList[j] = k THEN DIAGONAL_CHAR
                        ELSE IF <<k, keysList[j]>> \in DOMAIN cells
                        THEN cells[<<k, keysList[j]>>]
                        ELSE PLACEHOLDER_CHAR])]]

Shapes == {"wellformed", "missingrow", "shortrow", "absent"}

\* damage done to a tracker file by hand: a row removed, or a row cut short
Damage(file, shape, key) ==
    CASE shape = "missingrow" ->
            [file EXCEPT !.grid = [k \in DOMAIN file.grid \ {key} |-> file.grid[k]]]
      [] shape = "shortrow" ->
            [file EXCEPT !.grid[key] = << <<PLACEHOLDER_CHAR, 2>> >>]
      [] shape = "absent" -> NoFile
      [] OTHER -> file

SeedDisk(map, c1, c2, shape) ==
    [t \in Trackers |->
        CASE t = "doc" ->
                Damage(MakeFile(map, DocPaths(map),
                                (<<"2A", "2B">> :> c1) @@ (<<"2B", "2A">> :> c2)),
                       shape, "2A")
          [] t = "mini_src" ->
                Damage(MakeFile(map, InternalPaths(map, "src") \cup {"lib/c.py"},
                                (<<map["src/a.py"], map["src/b.py"]>> :> c1)
                                @@ (<<map["src/b.py"], map["src/a.py"]>> :> c2)
                                @@ (<<map["src/a.py"], "1B1">> :> c1)),
                       shape, map["src/b.py"])
          [] t = "mini_lib" ->
                MakeFile(map, InternalPaths(map, "lib")
                              \cup {"src/a.py", "src/b.py", "docs/g/x.md"},
                         (<<"1B1", map["src/b.py"]>> :> "<")
                         @@ (<<"1B1", "2A1">> :> "<")
                         @@ (<<"1B1", map["src/a.py"]>> :> c2)
                         @@ (<<map["src/a.py"], "1B1">> :> c2)
                         @@ (<<"1B", map["src/a.py"]>> :> c1))
          [] OTHER ->
                Damage(MakeFile(map, MainPaths(map),
                                (<<"1A", "1B">> :> c1) @@ (<<"1B", "1A">> :> c2)),
                       shape, "1B")]

\* orders in which the set of tracker paths may be iterated; the order is
\* that of one process
IterOrders == { <<"main", "doc", "mini_src", "mini_lib">>,
                <<"mini_lib", "mini_src", "doc", "main">> }

\* no analyze_project run is in progress
NoRun == [phase |-> "idle", pending |-> {}, log |-> << >>]

\* the global maps and the tracker files
InitFiles ==
    \E sc \in Scenarios, seed \in SeedPairs, shape \in Shapes :
        /\ shape = "wellformed" \/ (sc[2] = BaseMap /\ seed = <<"p", "n">>)
        /\ oldMap = sc[1]
        /\ newMap = sc[2]
        /\ iterOrder \in IterOrders
        /\ disk = SeedDisk(sc[3], seed[1], seed[2], shape)
        /\ last = [t |-> NONE]
        /\ calls = 0

\* no tracker file is being written or read line by line
NoWriter == [n |-> 0, f |-> NONE, pc |-> "idle", by |-> NONE, pre |-> << >>,
             post |-> << >>]
NoRead == [f |-> NONE, lines |-> << >>, w |-> NoWriter, fresh |-> << >>]
NoEvents == [f |-> NONE, log |-> << >>, pre |-> << >>, mapFails |-> FALSE]
\* no analyze_project run, nothing memoized, no write_tracker_file call
NoAnalysis == [new |-> {}, old |-> {}, phase |-> "idle", pending |-> {},
               status |-> "success", report |-> << >>, touched |-> {}, io |-> {},
               keysFail |-> FALSE]
NoCache == [tracker_data |-> {}, aggregation |-> {}]
NoWrite == [f |-> NONE, grid |-> << >>, ok |-> FALSE, before |-> << >>]
QuietCalls == analysis = NoAnalysis /\ cache = NoCache /\ wcall = NoWrite
QuietFiles ==
    /\ text = [t \in Trackers |-> << >>]
    /\ writer = NoWriter
    /\ seen = NoRead
    /\ backups = {}
    /\ now = 0
    /\ events = NoEvents
    /\ made = {}
    /\ QuietCalls

Init == InitFiles /\ run = NoRun /\ QuietFiles

----------------------------------------------------------------------------
(* Inputs of a call *)

SuggChars == {"<", "s"}

\* key of the first file of src in the new map
KeyA == IF "src/a.py" \in DOMAIN newMap THEN newMap["src/a.py"]
        ELSE newMap["src/a_new.py"]

KeyB == newMap["src/b.py"]

\* the ordered key pairs the analysis makes suggestions for, per tracker
SuggPairs(t) ==
    CASE t = "doc" -> {<<"2A", "2B">>}
      [] t = "mini_src" -> {<<KeyA, KeyB>>, <<KeyA, "1B1">>}
      [] OTHER -> {}

\* the pairs for which a suggestion in the reverse direction follows
ReversedPairs(t) ==
    CASE t = "doc" -> {<<"2A", "2B">>}
      [] t = "mini_src" -> {<<KeyA, KeyB>>}
      [] OTHER -> {}

\* the ordered key pairs add-dependency is called for, per tracker
ForcedPairs(t) ==
    CASE t = "doc" -> {<<"2A", "2B">>, <<"2", "2A">>}
      [] t = "mini_src" -> {<<KeyA, KeyB>>, <<KeyA, "1B1">>}
      [] t = "main" -> {<<"1A", "1B">>}
      [] OTHER -> {}

Sugg(pr, c) == [src |-> pr[1], ch |-> c, tgt |-> pr[2]]

\* suggestion lists of the analysis: none, one suggestion, or a suggestion
\* followed by one for the reverse direction
SuggLists(t) ==
    {<< >>}
    \cup {<<Sugg(pr, c)>> : pr \in SuggPairs(t), c \in SuggChars}
    \cup {<<Sugg(pr, c), Sugg(<<pr[2], pr[1]>>, "<")>> :
            pr \in ReversedPairs(t), c \in SuggChars}

\* add-dependency passes one source with its targets and one character
ForcedLists(t) == {<<Sugg(pr, c)>> : pr \in ForcedPairs(t), c \in SuggChars}

\* handle_add_dependency: the checks made before update_tracker is called
handle_add_dependency_accepts(t, raw) ==
    /\ TypeOf(t) # "mini" => (disk[t].exists /\ DOMAIN disk[t].keys # {})
    /\ \A i \in 1..Len(raw) :
         /\ raw[i].src \in KeysOf(newMap)
         /\ raw[i].tgt \in KeysOf(newMap)
         /\ raw[i].src # raw[i].tgt
         /\ TypeOf(t) # "mini" => raw[i].tgt \in DOMAIN disk[t].keys

Call(t, raw, force) ==
    LET r == update_tracker(disk, oldMap, newMap, t, raw, force, iterOrder, {})
    IN  /\ calls < MaxCalls
        /\ force => handle_add_dependency_accepts(t, raw)
        /\ disk' = r.disk
        /\ last' = r
        /\ calls' = calls + 1
        /\ UNCHANGED <<oldMap, newMap, iterOrder, run, fileVars>>

\* analyze_project updates the mini tracker of a module, add-dependency
\* forces one suggestion into it
UpdateMini ==
    \E t \in {"mini_src", "mini_lib"}, force \in BOOLEAN :
        \E raw \in (IF force THEN ForcedLists(t) ELSE SuggLists(t)) :
            /\ ModuleOf(t) \in DOMAIN newMap
            /\ Call(t, raw, force)

UpdateDoc ==
    \E force \in BOOLEAN :
        \E raw \in (IF force THEN ForcedLists("doc") ELSE SuggLists("doc")) :
            Call("doc", raw, force)

\* analyze_project passes no suggestions to the main tracker: they are
\* aggregated inside update_tracker
UpdateMain ==
    \E force \in BOOLEAN :
        \E raw \in (IF force THEN ForcedLists("main") ELSE {<< >>}) :
            Call("main", raw, force)

Next == UpdateMini \/ UpdateDoc \/ UpdateMain

Spec == Init /\ [][Next]_vars

----------------------------------------------------------------------------
(* analyze_project: the tracker updates of one run *)

\* directories that get a mini tracker: the code roots and their child
\* directories
potential_mini_tracker_dirs(new) ==
    {p \in DOMAIN new :
        is_directory(p) /\ (p \in CodeRoots \/ parent_path(p) \in CodeRoots)}

RunInit ==
    /\ InitFiles
    /\ QuietFiles
    /\ run = [phase |-> "mini", pending |-> potential_mini_tracker_dirs(newMap),
              log |-> << >>]

\* the suggestions the analysis of a run hands to a tracker: none, or one <
\* suggestion
RunSuggLists(t) ==
    {raw \in SuggLists(t) : Len(raw) <= 1 /\ \A i \in 1..Len(raw) : raw[i].ch = "<"}

\* an update whose exception stops the whole run
RunUpdate_FailureStops(t, raw, pending, phase) ==
    LET r == update_tracker(disk, oldMap, newMap, t, raw, FALSE, iterOrder, {})
    IN  \E fails \in BOOLEAN :
            /\ disk' = IF fails \/ r.raised THEN disk ELSE r.disk
            /\ last' = IF fails THEN last ELSE r
            /\ run' = [phase |-> IF fails THEN "done" ELSE phase,
                       pending |-> pending,
                       log |-> Append(run.log, [t |-> t, ok |-> ~(fails \/ r.raised)])]
            /\ UNCHANGED <<oldMap, newMap, iterOrder, calls, fileVars>>

\* one update_tracker call of the run inside its try/except: an exception is
\* logged as a failure and the run goes on with the given pending modules
\* and phase
RunUpdate(t, raw, pending, phase) ==
    LET r == update_tracker(disk, oldMap, newMap, t, raw, FALSE, iterOrder, {})
    IN  \E fails \in BOOLEAN :
            /\ disk' = IF fails \/ r.raised THEN disk ELSE r.disk
            /\ last' = IF fails THEN last ELSE r
            /\ run' = [phase |-> phase, pending |-> pending,
                       log |-> Append(run.log, [t |-> t, ok |-> ~(fails \/ r.raised)])]
            /\ UNCHANGED <<oldMap, newMap, iterOrder, calls, fileVars>>

\* the loop over the module directories
RunMini ==
    /\ run.phase = "mini"
    /\ \E m \in run.pending :
         \E raw \in RunSuggLists(MiniTrackerOf(m)) :
             RunUpdate(MiniTrackerOf(m), raw, run.pending \ {m}, "mini")

RunDoc ==
    /\ run.phase = "mini"
    /\ run.pending = {}
    /\ DocRoots # {}
    /\ \E raw \in RunSuggLists("doc") : RunUpdate("doc", raw, {}, "main")

RunMain ==
    /\ run.phase = "main"
    /\ RunUpdate("main", << >>, {}, "done")

RunNext == RunMini \/ RunDoc \/ RunMain

RunSpec == RunInit /\ [][RunNext]_vars

----------------------------------------------------------------------------
(* Tracker files as text: update_tracker and write_tracker_file open the   *)
(* file for writing, which empties it, and write it line by line; another  *)
(* process may read the file at any time and the writing process may be    *)
(* interrupted.  A line is a pair <<kind, version>>.                       *)

MaxWrites == 2

marker_start == <<"marker_start", 0>>
marker_end == <<"marker_end", 0>>
BlankLine == <<"blank", 0>>

\* the managed block: key definitions, the two edit lines, the grid
Block(v) == << <<"keys", v>>, BlankLine, <<"edits", v>>, BlankLine, <<"grid", v>> >>

\* index of the first line equal to m, 0 when there is none (next(...) raises
\* StopIteration)
FirstIndex(lines, m) ==
    IF \E i \in 1..Len(lines) : lines[i] = m
    THEN CHOOSE i \in 1..Len(lines) :
            lines[i] = m /\ \A j \in 1..(i - 1) : lines[j] # m
    ELSE 0

\* the marker pair is found: both markers present, the start one first
MarkersFound(lines) ==
    /\ FirstIndex(lines, marker_start) > 0
    /\ FirstIndex(lines, marker_end) > 0
    /\ FirstIndex(lines, marker_start) < FirstIndex(lines, marker_end)

\* the lines update_tracker writes, given the lines it read at its start
UpdateTrackerLines(lines, is_mini, v) ==
    IF is_mini /\ lines # << >> /\ MarkersFound(lines)
    THEN SubSeq(lines, 1, FirstIndex(lines, marker_start)) \o <<BlankLine>>
         \o Block(v) \o <<BlankLine>>
         \o SubSeq(lines, FirstIndex(lines, marker_end), Len(lines))
    ELSE IF is_mini
    THEN Block(v) \o <<BlankLine, IF lines # << >> THEN marker_end ELSE BlankLine>>
    ELSE Block(v)

\* the lines write_tracker_file writes
WriteTrackerFileLines(v) == Block(v)

\* a mini tracker file with notes around a marker pair, one whose markers
\* were lost, one left with the end marker only
MiniTexts ==
    { << <<"notes", 1>>, marker_start, BlankLine >> \o Block(0)
         \o << BlankLine, marker_end, <<"notes", 2>> >>,
      Block(0) \o <<BlankLine, BlankLine>>,
      << <<"notes", 1>> >> \o Block(0) \o <<BlankLine, marker_end>> }

TextFiles == {"mini_src", "main"}

WriteInit ==
    /\ oldMap = EmptyMap /\ newMap = BaseMap
    /\ iterOrder = <<"main", "doc", "mini_src", "mini_lib">>
    /\ disk = [t \in Trackers |-> NoFile]
    /\ last = [t |-> NONE]
    /\ calls = 0
    /\ run = NoRun
    /\ \E m \in MiniTexts :
         text = [t \in Trackers |->
                    IF t = "mini_src" THEN m
                    ELSE IF t = "main" THEN Block(0) ELSE << >>]
    /\ writer = NoWriter
    /\ seen = NoRead
    /\ backups = {} /\ now = 0 /\ events = NoEvents /\ made = {}
    /\ QuietCalls

\* the variables a write of lines leaves alone
NotText == <<oldMap, newMap, iterOrder, disk, last, calls, run, backups, now, events, made,
            analysis, cache, wcall>>

\* open(path, "w"): the file is emptied, the lines are still to be written
OpenForWrite(f, by, post) ==
    /\ writer.pc # "open"
    /\ writer.n < MaxWrites
    /\ writer' = [n |-> writer.n + 1, f |-> f, pc |-> "open", by |-> by,
                  pre |-> text[f], post |-> post]
    /\ text' = [text EXCEPT ![f] = << >>]
    /\ UNCHANGED <<NotText, seen>>

\* update_tracker reaches its write
UpdateTrackerWrite ==
    \E f \in TextFiles :
        OpenForWrite(f, "update_tracker",
                     UpdateTrackerLines(text[f], TypeOf(f) = "mini", writer.n + 1))

\* set_char or merge-trackers reaches write_tracker_file
WriteTrackerFileWrite ==
    \E f \in TextFiles :
        OpenForWrite(f, "write_tracker_file", WriteTrackerFileLines(writer.n + 1))

\* the next line reaches the disk
FlushLine ==
    /\ writer.pc = "open"
    /\ Len(text[writer.f]) < Len(writer.post)
    /\ text' = [text EXCEPT ![writer.f] =
                    Append(@, writer.post[Len(text[writer.f]) + 1])]
    /\ UNCHANGED <<NotText, writer, seen>>

\* the with block ends
CloseFile ==
    /\ writer.pc = "open"
    /\ text[writer.f] = writer.post
    /\ writer' = [writer EXCEPT !.pc = "closed"]
    /\ UNCHANGED <<NotText, text, seen>>

\* the writing process is killed
Interrupt ==
    /\ writer.pc = "open"
    /\ writer' = [writer EXCEPT !.pc = "killed"]
    /\ UNCHANGED <<NotText, text, seen>>

\* another process reads a tracker file
ReadLines ==
    \E f \in TextFiles :
        /\ seen' = [f |-> f, lines |-> text[f], w |-> writer, fresh |-> text[f]]
        /\ UNCHANGED <<NotText, text, writer>>

WriteNext ==
    \/ UpdateTrackerWrite \/ WriteTrackerFileWrite \/ FlushLine \/ CloseFile
    \/ Interrupt \/ ReadLines

WriteSpec == WriteInit /\ [][WriteNext]_vars

----------------------------------------------------------------------------
(* Backups: backup_tracker_file copies a tracker file into the one backups *)
(* directory under its base name and a timestamp and removes all but the   *)
(* two newest backups of that base name; update_tracker reads, creates,    *)
(* backs up and writes its tracker file.  A missing file has no lines.     *)

MaxClock == 4

\* two mini trackers of module directories of the same name, and the main
\* tracker
BackupPaths == {"src/utils/utils_module.md", "lib/utils/utils_module.md",
                "cline_docs/module_relationship_tracker.md"}

\* os.path.basename
basename(p) ==
    IF p = "cline_docs/module_relationship_tracker.md"
    THEN "module_relationship_tracker.md"
    ELSE "utils_module.md"

\* the backups directory after backup_tracker_file(p) at time ts: the copy is
\* added, then of the backups whose name starts with the base name all but
\* the two newest are removed
backup_tracker_file(B, p, content, ts) ==
    LET copied == B \cup {[content |-> content, ts |-> ts, base |-> basename(p),
                           of |-> p]}
        same == {b \in copied : b.base = basename(p)}
    IN  (copied \ same)
        \cup {b \in same : Cardinality({c \in same : c.ts > b.ts}) < 2}

\* the content of a tracker file just created: the key definitions and a
\* grid of placeholders
Created(ts) ==
    << <<"keys", ts>>, BlankLine, <<"edits", ts>>, BlankLine, <<"placeholders", ts>> >>

\* the file created before the migration map is built
UpdateOperations_CreatesFirst(lines, readFails, mapFails, backupFails, writeFails, ts) ==
    LET tracker_exists == lines # << >> /\ ~readFails
        current == IF tracker_exists THEN lines ELSE Created(ts)
    IN  IF ~tracker_exists /\ writeFails THEN << >>
        ELSE (IF tracker_exists THEN << >>
              ELSE << [content |-> current, op |-> "write"] >>)
             \o (IF mapFails \/ backupFails THEN << >>
                 ELSE << [content |-> current, op |-> "backup"] >>)
             \o (IF mapFails \/ writeFails THEN << >>
                 ELSE << [content |-> Block(ts), op |-> "write"] >>)

\* the file operations of update_tracker on its tracker file, in order: a
\* file that is missing or cannot be read is created, the file is backed up,
\* the updated content is written; nothing happens when the migration map
\* cannot be built, and a call that cannot create the file returns
UpdateOperations(lines, readFails, mapFails, backupFails, writeFails, ts) ==
    LET tracker_exists == lines # << >> /\ ~readFails
        current == IF tracker_exists THEN lines ELSE Created(ts)
    IN  IF mapFails \/ (~tracker_exists /\ writeFails) THEN << >>
        ELSE (IF tracker_exists THEN << >>
              ELSE << [content |-> current, op |-> "write"] >>)
             \o (IF backupFails THEN << >>
                 ELSE << [content |-> current, op |-> "backup"] >>)
             \o (IF writeFails THEN << >>
                 ELSE << [content |-> Block(ts), op |-> "write"] >>)

\* the content the operations leave in the file
RECURSIVE ContentAfter(_, _)
ContentAfter(lines, ops) ==
    IF ops = << >> THEN lines
    ELSE ContentAfter(IF Head(ops).op = "write" THEN Head(ops).content ELSE lines,
                      Tail(ops))

\* the backups directory after the operations
RECURSIVE BackupsAfter(_, _, _, _)
BackupsAfter(B, p, ops, ts) ==
    IF ops = << >> THEN B
    ELSE BackupsAfter(IF Head(ops).op = "backup"
                      THEN backup_tracker_file(B, p, Head(ops).content, ts)
                      ELSE B,
                      p, Tail(ops), ts)

BackupInit ==
    /\ oldMap = EmptyMap /\ newMap = BaseMap
    /\ iterOrder = <<"main", "doc", "mini_src", "mini_lib">>
    /\ disk = [t \in Trackers |-> NoFile]
    /\ last = [t |-> NONE]
    /\ calls = 0
    /\ run = NoRun
    /\ text \in [BackupPaths -> {<< >>, Block(0)}]
    /\ writer = NoWriter
    /\ seen = NoRead
    /\ backups = {}
    /\ now = 0
    /\ events = NoEvents
    /\ made = {}
    /\ QuietCalls

\* the variables the backup model leaves alone
NotBackup == <<oldMap, newMap, iterOrder, disk, last, calls, run, writer, seen, cache, wcall>>

\* backup_tracker_file called on its own (merge-trackers, remove-key)
BackupTrackerFile ==
    \E p \in BackupPaths :
        /\ now < MaxClock
        /\ text[p] # << >>
        /\ now' = now + 1
        /\ backups' = backup_tracker_file(backups, p, text[p], now + 1)
        /\ made' = made \cup {<<p, now + 1>>}
        /\ UNCHANGED <<NotBackup, text, events, analysis>>

\* the effect of the file operations ops of an update_tracker call on p
Performs(p, ops, mapFails) ==
    /\ now' = now + 1
    /\ text' = [text EXCEPT ![p] = ContentAfter(text[p], ops)]
    /\ backups' = BackupsAfter(backups, p, ops, now + 1)
    /\ made' = made \cup (IF \E i \in 1..Len(ops) : ops[i].op = "backup"
                          THEN {<<p, now + 1>>} ELSE {})
    /\ events' = [f |-> p, log |-> ops, pre |-> text[p], mapFails |-> mapFails]

\* one update_tracker call outside an analyze_project run
UpdateTrackerFile ==
    \E p \in BackupPaths, readFails \in BOOLEAN, mapFails \in BOOLEAN,
       backupFails \in BOOLEAN, writeFails \in BOOLEAN :
        /\ now < MaxClock
        /\ analysis.phase \in {"idle", "done"}
        /\ readFails => text[p] # << >>
        /\ Performs(p, UpdateOperations(text[p], readFails, mapFails, backupFails,
                                        writeFails, now + 1), mapFails)
        /\ UNCHANGED <<NotBackup, analysis>>

BackupNext == BackupTrackerFile \/ UpdateTrackerFile

BackupSpec == BackupInit /\ [][BackupNext]_vars

----------------------------------------------------------------------------
(* analyze_project: key generation, the migration map, then the update of  *)
(* the mini trackers and of the main tracker, each inside its own          *)
(* try/except.  A global key map is the set of the paths it has entries    *)
(* for, as they are spelled in it.                                         *)

\* the spelling of a path that every spelling of it is reduced to
normalize_path(raw) == IF raw = "src/./a.py" THEN "src/a.py" ELSE raw

\* _build_path_migration_map raises ValueError: two entries of the old map,
\* when there is one, or of the new map are the same path
DuplicatePaths(old_global_map, new_global_map) ==
    \/ \E p, q \in old_global_map : p # q /\ normalize_path(p) = normalize_path(q)
    \/ \E p, q \in new_global_map : p # q /\ normalize_path(p) = normalize_path(q)

OldMaps == {{}, {"src/a.py", "src/b.py"}, {"src/a.py", "src/./a.py"}}
NewMaps == {{"src/a.py", "src/b.py"}, {"src/a.py", "src/./a.py", "src/b.py"}}

AnalysisInit ==
    /\ oldMap = EmptyMap /\ newMap = BaseMap
    /\ iterOrder = <<"main", "doc", "mini_src", "mini_lib">>
    /\ disk = [t \in Trackers |-> NoFile]
    /\ last = [t |-> NONE]
    /\ calls = 0
    /\ run = NoRun
    /\ text \in [BackupPaths -> {<< >>, Block(0)}]
    /\ writer = NoWriter
    /\ seen = NoRead
    /\ backups = {}
    /\ now = 0
    /\ events = NoEvents
    /\ made = {}
    /\ cache = NoCache
    /\ wcall = NoWrite
    /\ \E old \in OldMaps, new \in NewMaps :
          analysis = [new |-> new, old |-> old, phase |-> "keys",
                      pending |-> {"src/utils/utils_module.md",
                                   "lib/utils/utils_module.md"}, status |-> "success",
                      report |-> << >>, touched |-> {}, io |-> {},
                      keysFail |-> FALSE]

\* key_manager.generate_keys; a failure ends the run with status error
GenerateKeys ==
    /\ analysis.phase = "keys"
    /\ \E fails \in BOOLEAN :
          analysis' = [analysis EXCEPT !.phase = IF fails THEN "done" ELSE "map",
                                       !.status = IF fails THEN "error" ELSE @,
                                       !.keysFail = fails]
    /\ UNCHANGED <<NotBackup, text, backups, now, events, made>>

\* the migration map of the run; a failure ends the run with status error
BuildMigrationMap ==
    /\ analysis.phase = "map"
    /\ analysis' = IF DuplicatePaths(analysis.old, analysis.new)
                   THEN [analysis EXCEPT !.phase = "done", !.status = "error"]
                   ELSE [analysis EXCEPT !.phase = "mini"]
    /\ UNCHANGED <<NotBackup, text, backups, now, events, made>>

\* one update_tracker call of the run inside its try/except: an exception
\* that leaves update_tracker is recorded as a failure and makes the status
\* warning; a call that returns is recorded as a success
AnalysisUpdate(p, pending, phase) ==
    \E readFails \in BOOLEAN, backupFails \in BOOLEAN, writeFails \in BOOLEAN,
       raises \in BOOLEAN :
        LET ops == IF raises THEN << >>
                   ELSE UpdateOperations(text[p], readFails, FALSE, backupFails,
                                         writeFails, now + 1)
        IN  /\ readFails => text[p] # << >>
            /\ raises => ~(readFails \/ backupFails \/ writeFails)
            /\ Performs(p, ops, FALSE)
            /\ analysis' =
                 [analysis EXCEPT
                    !.phase = phase,
                    !.pending = pending,
                    !.status = IF raises THEN "warning" ELSE @,
                    !.report = (p :> IF raises THEN "failure" ELSE "success") @@ @,
                    !.touched = @ \cup {<<p, ops[i].op>> : i \in 1..Len(ops)},
                    !.io = IF readFails \/ backupFails \/ writeFails
                           THEN @ \cup {p} ELSE @]
            /\ UNCHANGED NotBackup

\* the loop over the module directories
AnalysisUpdateMini ==
    /\ analysis.phase = "mini"
    /\ \E p \in analysis.pending : AnalysisUpdate(p, analysis.pending \ {p}, "mini")

\* the main tracker last
AnalysisUpdateMain ==
    /\ analysis.phase = "mini"
    /\ analysis.pending = {}
    /\ AnalysisUpdate("cline_docs/module_relationship_tracker.md", {}, "done")

AnalysisNext ==
    \/ GenerateKeys
    \/ BuildMigrationMap
    \/ AnalysisUpdateMini
    \/ AnalysisUpdateMain
    \/ UpdateTrackerFile

AnalysisSpec == AnalysisInit /\ [][AnalysisNext]_vars

----------------------------------------------------------------------------
(* write_tracker_file: the grid handed to it is validated, its rows are    *)
(* rebuilt, and the file is written.                                       *)

MaxRowLen == 3

\* the key definitions of the calls
WriteDefs == ("1A1" :> "src/a.py") @@ ("1A2" :> "src/b.py")

\* the rows a caller may hand over: every row of one to MaxRowLen characters
RawRows == UNION {[1..n -> {"o", "<"}] : n \in 1..MaxRowLen}

\* the grids a caller may hand over: a compressed row, or none, per key
GridsToWrite ==
    UNION {[S -> {compress(r) : r \in RawRows}] : S \in SUBSET DOMAIN WriteDefs}

\* validate_grid: every key has a row that decompresses to the number of keys
\* and holds o at the key's own position
validate_grid(grid, keysList) ==
    \A i \in 1..Len(keysList) :
        /\ keysList[i] \in DOMAIN grid
        /\ Len(decompress(grid[keysList[i]])) = Len(keysList)
        /\ decompress(grid[keysList[i]])[i] = DIAGONAL_CHAR

\* write_tracker_file: False and nothing written when the grid handed over
\* is not valid; otherwise the rows are rebuilt (a missing row or one of the
\* wrong length becomes an initial row) and the file is written
write_tracker_file(key_defs_to_write, grid_to_write) ==
    LET sorted_keys_list == sort_key_strings_hierarchically(DOMAIN key_defs_to_write)
    IN  IF ~validate_grid(grid_to_write, sorted_keys_list)
        THEN [file |-> NoFile, ok |-> FALSE]
        ELSE [file |-> [exists |-> TRUE, keys |-> key_defs_to_write,
                        grid |-> _write_grid(sorted_keys_list, grid_to_write)],
              ok |-> TRUE]

GridWriteInit ==
    /\ oldMap = EmptyMap /\ newMap = BaseMap
    /\ iterOrder = <<"main", "doc", "mini_src", "mini_lib">>
    /\ disk = [t \in Trackers |-> NoFile]
    /\ last = [t |-> NONE]
    /\ calls = 0
    /\ run = NoRun
    /\ QuietFiles

\* one write_tracker_file call on the tracker file t
WriteTrackerFileCall ==
    \E t \in {"main"}, grid \in GridsToWrite :
        LET r == write_tracker_file(WriteDefs, grid)
        IN  /\ wcall' = [f |-> t, grid |-> grid, ok |-> r.ok, before |-> disk[t]]
            /\ disk' = IF r.ok THEN [disk EXCEPT ![t] = r.file] ELSE disk
            /\ UNCHANGED <<oldMap, newMap, iterOrder, last, calls, run, text, writer,
                           seen, backups, now, events, made, analysis, cache>>

GridWriteNext == WriteTrackerFileCall

GridWriteSpec == GridWriteInit /\ [][GridWriteNext]_vars

----------------------------------------------------------------------------
(* The caches of one process.  read_tracker_file is memoized in the cache  *)
(* tracker_data under the path and the modification time of the file,      *)
(* aggregate_all_dependencies in the cache aggregation under the set of    *)
(* paths and the migration map; an entry stays until it is invalidated or  *)
(* its time to live has passed.  The content of a file written at time v   *)
(* is Block(v), and v is its modification time.                            *)

CachePaths == {"src/utils/utils_module.md", "cline_docs/module_relationship_tracker.md"}

\* os.path.getmtime, 0 for a missing file
getmtime(p) == IF text[p] = << >> THEN 0 ELSE text[p][1][2]

\* a cache holds an entry under a key
IsCached(entries, key) == \E e \in entries : e.key = key

\* the value a cache holds under a key
Cached(entries, key) == (CHOOSE e \in entries : e.key = key).value

\* invalidate_dependent_entries('tracker_data', 'tracker_data:<path>:.*')
InvalidateTrackerData(C, p) ==
    [C EXCEPT !.tracker_data = {e \in @ : e.key[1] # p}]

\* invalidate_dependent_entries('aggregation', '.*')
InvalidateAggregation(C) == [C EXCEPT !.aggregation = {}]

\* what read_tracker_file(p) returns with the cache C
ReadThroughCache(C, p) ==
    IF IsCached(C.tracker_data, <<p, getmtime(p)>>)
    THEN Cached(C.tracker_data, <<p, getmtime(p)>>)
    ELSE text[p]

\* the cache after the read_tracker_file calls on the paths P
CacheAfterReads(C, P) ==
    [C EXCEPT !.tracker_data =
        @ \cup {[value |-> text[p], key |-> <<p, getmtime(p)>>] :
                  p \in {q \in P : ~IsCached(C.tracker_data, <<q, getmtime(q)>>)}}]

CacheInit ==
    /\ oldMap = EmptyMap /\ newMap = BaseMap
    /\ iterOrder = <<"main", "doc", "mini_src", "mini_lib">>
    /\ disk = [t \in Trackers |-> NoFile]
    /\ last = [t |-> NONE]
    /\ calls = 0
    /\ run = NoRun
    /\ text \in [CachePaths -> {<< >>, Block(0)}]
    /\ writer = NoWriter
    /\ seen = NoRead
    /\ backups = {}
    /\ now = 0
    /\ events = NoEvents
    /\ made = {}
    /\ QuietCalls

\* the variables the caches and the reads through them leave alone
NotCache == <<oldMap, newMap, iterOrder, disk, last, calls, run, writer, backups,
              events, made, analysis, wcall>>

\* read_tracker_file(p)
CachedRead ==
    \E p \in CachePaths :
        /\ seen' = [f |-> p, lines |-> ReadThroughCache(cache, p), w |-> NoWriter,
                    fresh |-> text[p]]
        /\ cache' = CacheAfterReads(cache, {p})
        /\ UNCHANGED <<NotCache, text, now>>

\* aggregate_all_dependencies over all tracker paths: the memoized result, or
\* one computed from read_tracker_file of every path
CachedAggregate ==
    /\ seen' = [f |-> "aggregation",
                lines |-> IF IsCached(cache.aggregation, CachePaths)
                          THEN Cached(cache.aggregation, CachePaths)
                          ELSE [p \in CachePaths |-> ReadThroughCache(cache, p)],
                w |-> NoWriter,
                fresh |-> [p \in CachePaths |-> text[p]]]
    /\ cache' = IF IsCached(cache.aggregation, CachePaths) THEN cache
                ELSE [CacheAfterReads(cache, CachePaths) EXCEPT
                        !.aggregation =
                           {[value |-> [p \in CachePaths |->
                                          ReadThroughCache(cache, p)],
                             key |-> CachePaths]}]
    /\ UNCHANGED <<NotCache, text, now>>

\* update_tracker writes p, creating it first when it is missing, and
\* invalidates the tracker_data entries of p and the whole aggregation cache
CachedUpdateTracker ==
    \E p \in CachePaths :
        /\ now < MaxClock
        /\ now' = now + 1
        /\ text' = [text EXCEPT ![p] = Block(now + 1)]
        /\ cache' = InvalidateAggregation(InvalidateTrackerData(cache, p))
        /\ UNCHANGED <<NotCache, seen>>

\* write_tracker_file writes p (set_char, merge-trackers) and invalidates
\* the tracker_data entries of p
CachedWriteTrackerFile ==
    \E p \in CachePaths :
        /\ now < MaxClock
        /\ now' = now + 1
        /\ text' = [text EXCEPT ![p] = Block(now + 1)]
        /\ cache' = InvalidateTrackerData(cache, p)
        /\ UNCHANGED <<NotCache, seen>>

\* the time to live of the entries passes
Expire ==
    /\ cache # NoCache
    /\ cache' = NoCache
    /\ UNCHANGED <<NotCache, text, now, seen>>

CacheNext ==
    \/ CachedRead
    \/ CachedAggregate
    \/ CachedUpdateTracker
    \/ CachedWriteTrackerFile
    \/ Expire

CacheSpec == CacheInit /\ [][CacheNext]_vars

----------------------------------------------------------------------------
(* remove_key_from_tracker: the path the tracker file defines for the key  *)
(* is taken out of a copy of the global map, and update_tracker is called  *)
(* with that copy and the key to remove.                                   *)

\* the global map without the entry of a path
WithoutPath(map, path) == [p \in DOMAIN map \ {path} |-> map[p]]

\* update_tracker finds the module of a mini tracker in the map it is given;
\* it returns at once when the directory has no entry
ModuleDetermined(t, map) ==
    TypeOf(t) = "mini" => (ModuleOf(t) \in DOMAIN map /\ is_directory(ModuleOf(t)))

\* the disk after remove_key_from_tracker(t, k) has returned
remove_key_from_tracker(d, old, new, t, k, order) ==
    LET path_removed == d[t].keys[k]
        modified_path_to_key_info == WithoutPath(new, path_removed)
    IN  IF ~ModuleDetermined(t, modified_path_to_key_info) THEN d
        ELSE update_tracker(d, old, modified_path_to_key_info, t, << >>, FALSE,
                            order, {k}).disk

\* one remove-key command that returns without raising: the file exists and
\* defines the key
RemoveKey ==
    \E t \in Trackers :
        \E k \in DOMAIN disk[t].keys :
            /\ calls < MaxCalls
            /\ disk[t].exists
            /\ disk' = remove_key_from_tracker(disk, oldMap, newMap, t, k, iterOrder)
            /\ wcall' = [f |-> t, grid |-> << >>, key |-> k, ok |-> TRUE,
                         before |-> disk]
            /\ calls' = calls + 1
            /\ UNCHANGED <<oldMap, newMap, iterOrder, last, run, text, writer, seen,
                           backups, now, events, made, analysis, cache>>

RemoveNext == RemoveKey

RemoveSpec == Init /\ [][RemoveNext]_vars

----------------------------------------------------------------------------
(* merge-trackers: the primary tracker file merged with a second file and *)
(* written over the primary; update_tracker may run before or after.      *)

\* safe_decompress: the rows of listed keys that decompress to the number of
\* keys; every other row is skipped
safe_decompress(grid_data, keys_list) ==
    [k \in {r \in DOMAIN grid_data :
                /\ r \in SeqSet(keys_list)
                /\ Len(decompress(grid_data[r])) = Len(keys_list)} |->
        decompress(grid_data[k])]

\* the secondary's value is taken before the primary's
_merge_grids_SecondaryFirst(primary_grid, secondary_grid, primary_keys_list, secondary_keys_list, merged_keys_list) ==
    LET primary_decomp == safe_decompress(primary_grid, primary_keys_list)
        secondary_decomp == safe_decompress(secondary_grid, secondary_keys_list)
    IN  [row_key \in SeqSet(merged_keys_list) |->
            compress([j \in 1..Len(merged_keys_list) |->
                LET col_key == merged_keys_list[j]
                    primary_val ==
                        IF row_key \in DOMAIN primary_decomp
                           /\ col_key \in SeqSet(primary_keys_list)
                        THEN primary_decomp[row_key][IndexOf(primary_keys_list, col_key)]
                        ELSE NONE
                    secondary_val ==
                        IF row_key \in DOMAIN secondary_decomp
                           /\ col_key \in SeqSet(secondary_keys_list)
                        THEN secondary_decomp[row_key][IndexOf(secondary_keys_list, col_key)]
                        ELSE NONE
                IN  IF col_key = row_key THEN DIAGONAL_CHAR
                    ELSE IF secondary_val # NONE /\ secondary_val # PLACEHOLDER_CHAR
                    THEN secondary_val
                    ELSE IF primary_val # NONE /\ primary_val # PLACEHOLDER_CHAR
                    THEN primary_val
                    ELSE PLACEHOLDER_CHAR])]

\* _merge_grids: per cell of the merged key list the primary's value unless
\* it is missing or p, else the secondary's unless missing or p, else p
_merge_grids(primary_grid, secondary_grid, primary_keys_list, secondary_keys_list, merged_keys_list) ==
    LET primary_decomp == safe_decompress(primary_grid, primary_keys_list)
        secondary_decomp == safe_decompress(secondary_grid, secondary_keys_list)
    IN  [row_key \in SeqSet(merged_keys_list) |->
            compress([j \in 1..Len(merged_keys_list) |->
                LET col_key == merged_keys_list[j]
                    primary_val ==
                        IF row_key \in DOMAIN primary_decomp
                           /\ col_key \in SeqSet(primary_keys_list)
                        THEN primary_decomp[row_key][IndexOf(primary_keys_list, col_key)]
                        ELSE NONE
                    secondary_val ==
                        IF row_key \in DOMAIN secondary_decomp
                           /\ col_key \in SeqSet(secondary_keys_list)
                        THEN secondary_decomp[row_key][IndexOf(secondary_keys_list, col_key)]
                        ELSE NONE
                IN  IF col_key = row_key THEN DIAGONAL_CHAR
                    ELSE IF primary_val # NONE /\ primary_val # PLACEHOLDER_CHAR
                    THEN primary_val
                    ELSE IF secondary_val # NONE /\ secondary_val # PLACEHOLDER_CHAR
                    THEN secondary_val
                    ELSE PLACEHOLDER_CHAR])]

\* merge_trackers: nothing is written when both files are empty; an empty
\* file leaves the other one as the data to write; otherwise the keys are
\* united, the primary's path standing for a key of both, and the grids are
\* merged.  The result goes through write_tracker_file.
merge_trackers(primary_data, secondary_data) ==
    LET primary_keys == primary_data.keys
        secondary_keys == secondary_data.keys
        merged_keys_map == primary_keys @@ secondary_keys
    IN  IF DOMAIN primary_keys = {} /\ DOMAIN secondary_keys = {}
        THEN [file |-> NoFile, ok |-> FALSE]
        ELSE IF DOMAIN primary_keys = {}
        THEN write_tracker_file(secondary_keys, secondary_data.grid)
        ELSE IF DOMAIN secondary_keys = {}
        THEN write_tracker_file(primary_keys, primary_data.grid)
        ELSE write_tracker_file(
                 merged_keys_map,
                 _merge_grids(primary_data.grid, secondary_data.grid,
                     sort_key_strings_hierarchically(DOMAIN primary_keys),
                     sort_key_strings_hierarchically(DOMAIN secondary_keys),
                     sort_key_strings_hierarchically(DOMAIN merged_keys_map)))

\* the files given as the secondary tracker: none, or a tracker of the module
\* src written under the new global map
SecondaryFiles ==
    {NoFile}
    \cup {MakeFile(newMap, InternalPaths(newMap, "src") \cup {"lib/c.py"},
                   (<<KeyA, KeyB>> :> c[1]) @@ (<<KeyB, KeyA>> :> c[2])) :
            c \in {<<"<", "p">>, <<"s", ">">>, <<"p", "d">>}}

\* one merge-trackers command with the mini tracker of src as primary and as
\* output; before is the copy backup_tracker_file keeps of the primary
MergeTrackers ==
    \E t \in {"mini_src"}, secondary \in SecondaryFiles :
        LET r == merge_trackers(read_tracker_file(disk, t),
                                [keys |-> secondary.keys, grid |-> secondary.grid])
        IN  /\ wcall.f = NONE
            /\ wcall' = [f |-> t, grid |-> << >>, ok |-> r.ok, before |-> disk[t],
                         secondary |-> secondary, merged |-> r.file]
            /\ disk' = IF r.ok THEN [disk EXCEPT ![t] = r.file] ELSE disk
            /\ UNCHANGED <<oldMap, newMap, iterOrder, last, calls, run, text, writer,
                           seen, backups, now, events, made, analysis, cache>>

MergeNext == MergeTrackers \/ UpdateMini \/ UpdateDoc \/ UpdateMain

MergeSpec == Init /\ [][MergeNext]_vars

----------------------------------------------------------------------------
(* analyze_project run again and again on an unchanged project: the global *)
(* key map and the suggestions of the analysis are the same in every run,  *)
(* no update fails, and the module directories are visited in the same     *)
(* order.  run.start is the disk at the start of the pass in progress,     *)
(* run.quiet says that the pass before it changed no tracker file.         *)

PassInit ==
    /\ InitFiles
    /\ oldMap = newMap
    /\ QuietFiles
    /\ \E forMini \in SuggLists("mini_src"), forDoc \in SuggLists("doc"),
          order \in {o \in [1..2 -> potential_mini_tracker_dirs(newMap)] :
                        o[1] # o[2]} :
         run = [order |-> order,
                suggs |-> [t \in Trackers |->
                              CASE t = "mini_src" -> forMini
                                [] t = "doc" -> forDoc
                                [] OTHER -> << >>],
                phase |-> "mini", pending |-> order,
                log |-> << >>, start |-> disk, begun |-> FALSE,
                quiet |-> FALSE, changed |-> FALSE, initial |-> disk]

\* a run that is not repeated: after the main tracker nothing comes
PassAdvance_SinglePass ==
    run' = [run EXCEPT
              !.phase = IF run.phase = "mini" /\ run.pending # << >>
                        THEN "mini"
                        ELSE IF run.phase = "mini" THEN "main" ELSE "done",
              !.pending = IF run.phase = "mini" /\ run.pending # << >>
                          THEN Tail(run.pending)
                          ELSE << >>,
              !.begun = TRUE]

\* the progress of the pass: which update comes next; the first update of a
\* pass notes whether the pass before changed anything
PassAdvance ==
    LET first == run.phase = "mini" /\ run.pending = run.order
    IN  run' = [run EXCEPT
                  !.phase = IF run.phase = "mini" /\ run.pending # << >>
                            THEN "mini"
                            ELSE IF run.phase = "mini" THEN "main" ELSE "mini",
                  !.pending = IF run.phase = "mini" /\ run.pending # << >>
                              THEN Tail(run.pending)
                              ELSE IF run.phase = "mini" THEN << >> ELSE run.order,
                  !.start = IF first THEN disk ELSE @,
                  !.begun = TRUE,
                  !.quiet = IF first THEN run.begun /\ disk = run.start ELSE @,
                  !.changed = IF first THEN @ \/ (run.begun /\ disk # run.start)
                              ELSE @]

\* one update_tracker call of a pass
PassUpdate(t) ==
    LET r == update_tracker(disk, oldMap, newMap, t, run.suggs[t], FALSE,
                            iterOrder, {})
    IN  /\ disk' = IF r.raised THEN disk ELSE r.disk
        /\ last' = r
        /\ PassAdvance
        /\ UNCHANGED <<oldMap, newMap, iterOrder, calls, fileVars>>

PassMini ==
    /\ run.phase = "mini"
    /\ run.pending # << >>
    /\ PassUpdate(MiniTrackerOf(Head(run.pending)))

PassDoc ==
    /\ run.phase = "mini"
    /\ run.pending = << >>
    /\ PassUpdate("doc")

\* the main tracker ends the pass; the next run starts over
PassMain ==
    /\ run.phase = "main"
    /\ PassUpdate("main")

PassNext == PassMini \/ PassDoc \/ PassMain

\* the runs never stop being made: the pass always advances
PassSpec == PassInit /\ [][PassNext]_vars /\ WF_run(PassAdvance)

----------------------------------------------------------------------------
(* A tracker file that does not exist: update_tracker creates it, then     *)
(* goes on to its write with the lines it read at its start, which are     *)
(* none for a file it has just created.  made collects the files created.  *)

\* the template of a mini tracker: notes for the reader, no marker in it
Template == << <<"template", 0>> >>

\* the lines create_mini_tracker writes
create_mini_tracker(v) ==
    Template \o <<marker_start, BlankLine>> \o Created(v) \o <<BlankLine, marker_end>>

\* the writes of one update_tracker call to its tracker file: the creation of
\* a missing file, then the final write built from the lines read at the
\* start of the call
UpdateTrackerText(lines, is_mini, v) ==
    LET tracker_exists == lines # << >>
        created == IF is_mini THEN create_mini_tracker(v) ELSE WriteTrackerFileLines(v)
    IN  (IF tracker_exists THEN << >>
         ELSE << [content |-> created, op |-> "write"] >>)
        \o << [content |-> UpdateTrackerLines(lines, is_mini, v), op |-> "write"] >>

CreateInit ==
    /\ oldMap = EmptyMap /\ newMap = BaseMap
    /\ iterOrder = <<"main", "doc", "mini_src", "mini_lib">>
    /\ disk = [t \in Trackers |-> NoFile]
    /\ last = [t |-> NONE]
    /\ calls = 0
    /\ run = NoRun
    /\ text \in [Trackers -> {<< >>} \cup MiniTexts \cup {Block(0)}]
    /\ \A t \in Trackers :
          text[t] # << >> => (TypeOf(t) = "mini" <=> text[t] \in MiniTexts)
    /\ writer = NoWriter
    /\ seen = NoRead
    /\ backups = {} /\ now = 0 /\ events = NoEvents /\ made = {}
    /\ QuietCalls

\* one update_tracker call, seen from its tracker file
UpdateTrackerCreate ==
    \E t \in Trackers :
        LET ops == UpdateTrackerText(text[t], TypeOf(t) = "mini", now + 1)
        IN  /\ now < MaxClock
            /\ now' = now + 1
            /\ text' = [text EXCEPT ![t] = ContentAfter(@, ops)]
            /\ made' = made \cup (IF text[t] = << >> THEN {<<t, now + 1>>} ELSE {})
            /\ events' = [f |-> t, log |-> ops, pre |-> text[t], mapFails |-> FALSE]
            /\ UNCHANGED <<NotBackup, backups, analysis>>

CreateNext == UpdateTrackerCreate

CreateSpec == CreateInit /\ [][CreateNext]_vars

----------------------------------------------------------------------------
(* Properties.  last records the stages of the most recent call; the file *)
(* it wrote is read back from disk as the readers read it.                *)

Done == last.t # NONE

Written == Done /\ last.wrote

\* character the written file holds at (k1, k2)
WrittenChar(k1, k2) == FileChar(disk[last.t], k1, k2)

\* character the file held at (k1, k2) before the call
PriorChar(k1, k2) == FileChar(last.prior, k1, k2)

\* the prior file had a missing row or a row of the wrong length
PriorDamaged ==
    /\ last.prior.exists
    /\ \E k \in DOMAIN last.prior.keys :
         \/ k \notin DOMAIN last.prior.grid
         \/ Len(decompress(last.prior.grid[k])) # Cardinality(DOMAIN last.prior.keys)

StageGrids == {last.gMig, last.gStruct, last.gImp, last.gSugg, last.gCons}

\* C1: every tracker file written by update_tracker has a row for exactly
\* the defined keys, every row decompresses to the number of keys and holds o
\* at its own position, and no stage of the call changes a diagonal cell.
C1_WrittenGridWellFormed ==
    Written =>
        LET file == disk[last.t]
            keysList == sort_key_strings_hierarchically(DOMAIN file.keys)
        IN  /\ file.exists
            /\ DOMAIN file.keys = DOMAIN last.defs
            /\ DOMAIN file.grid = DOMAIN file.keys
            /\ \A k \in DOMAIN file.grid :
                 LET row == decompress(file.grid[k])
                 IN  /\ Len(row) = Len(keysList)
                     /\ row[IndexOf(keysList, k)] = DIAGONAL_CHAR
            /\ \A g \in StageGrids : \A k \in DOMAIN last.defs :
                 g[<<k, k>>] = DIAGONAL_CHAR

\* C1 witness: a forced call wrote a tracker whose prior file was damaged
C1_Witness ==
    /\ Written
    /\ PriorDamaged
    /\ last.force
    /\ Cardinality(DOMAIN last.defs) >= 3

\* a path present in the old and in the new global map
StablePath(p) == p \in DOMAIN oldMap /\ p \in DOMAIN newMap

\* the cells of the prior file both of whose paths are stable and are keys of
\* the tracker after the update, as <<old row key, old column key>>
CarriedCells ==
    {c \in (DOMAIN last.prior.keys) \X (DOMAIN last.prior.keys) :
        /\ c[1] # c[2]
        /\ PriorChar(c[1], c[2]) # NONE
        /\ StablePath(last.prior.keys[c[1]])
        /\ StablePath(last.prior.keys[c[2]])
        /\ newMap[last.prior.keys[c[1]]] \in DOMAIN last.defs
        /\ newMap[last.prior.keys[c[2]]] \in DOMAIN last.defs}

\* the written cell at the same pair of paths is not weaker than the prior one
NotWeakened(c) ==
    get_priority(WrittenChar(newMap[last.prior.keys[c[1]]],
                             newMap[last.prior.keys[c[2]]]))
        >= get_priority(PriorChar(c[1], c[2]))

RenameCase ==
    /\ Written
    /\ last.t = "mini_src"
    /\ "src/a.py" \in DOMAIN oldMap
    /\ "src/a.py" \notin DOMAIN newMap
    /\ "src/a_new.py" \in DOMAIN newMap
    /\ "src/a_new.py" \notin DOMAIN oldMap
    /\ newMap["src/a_new.py"] # oldMap["src/a.py"]
    /\ StablePath("src/b.py")
    /\ PathOfKey(last.prior.keys, "src/a.py") # NONE
    /\ PathOfKey(last.prior.keys, "src/b.py") # NONE
    /\ PriorChar(PathOfKey(last.prior.keys, "src/a.py"),
                 PathOfKey(last.prior.keys, "src/b.py")) = ">"

\* C3 as stated: after the update the tracker defines A2 with path
\* src/a_new.py and the cell (A2, B) holds >.
C3_RenameCarriesValue ==
    RenameCase =>
        /\ Get(last.defs, newMap["src/a_new.py"]) = "src/a_new.py"
        /\ WrittenChar(newMap["src/a_new.py"], newMap["src/b.py"]) = ">"

\* C3 amended: after the update the tracker defines A2 with path
\* src/a_new.py and no longer defines a key for src/a.py, and the cell (A2, B)
\* is p after grid migration: a value is carried only between paths present
\* in both maps, so the > of the removed path is not carried to the added one.
C3_RenameDropsValue ==
    RenameCase =>
        /\ Get(last.defs, newMap["src/a_new.py"]) = "src/a_new.py"
        /\ PathOfKey(last.defs, "src/a.py") = NONE
        /\ last.gMig[<<newMap["src/a_new.py"], newMap["src/b.py"]>>] = PLACEHOLDER_CHAR

\* C3 witness: the rename scenario has been updated and the written cell is p
C3_Witness ==
    /\ RenameCase
    /\ WrittenChar(newMap["src/a_new.py"], newMap["src/b.py"]) = PLACEHOLDER_CHAR

\* the suggestions of the most recent call, as a set
LastSuggs == {last.suggs[i] : i \in 1..Len(last.suggs)}

\* the same call made once more on what the call left on disk
Rerun ==
    update_tracker(disk, oldMap, newMap, last.t, last.raw, last.force, iterOrder, {})

\* C4 as stated: when the grid holds < at (A,B) and < at (B,A) and the
\* suggestion (B->A, <) is applied, forced or not, the written file holds x
\* in both cells, and the same update run once more changes neither cell.
C4_MutualCollapse ==
    Written =>
        \A e \in LastSuggs :
            (/\ e.ch = "<"
             /\ last.gImp[<<e.src, e.tgt>>] = "<"
             /\ last.gImp[<<e.tgt, e.src>>] = "<")
            => /\ WrittenChar(e.src, e.tgt) = "x"
               /\ WrittenChar(e.tgt, e.src) = "x"
               /\ FileChar(Rerun.disk[last.t], e.src, e.tgt) = "x"
               /\ FileChar(Rerun.disk[last.t], e.tgt, e.src) = "x"

\* C5 as stated: in a call without force_apply, a cell (A,B) that holds n and
\* for which the call carries a suggestion (A->B, c) still holds n once the
\* suggestion step has run.
C5_NProtectedWithoutForce ==
    (Done /\ ~last.force) =>
        \A e \in LastSuggs :
            last.gImp[<<e.src, e.tgt>>] = "n" => last.gSugg[<<e.src, e.tgt>>] = "n"

\* C6 as stated: in a call with force_apply on an existing tracker, a
\* suggestion (A->B, c), c not p, over a cell holding another character ends
\* with c, or x after a mutual collapse, in the written file.
C6_ForcedOverrideWritten ==
    (Written /\ last.force /\ last.prior.exists) =>
        \A e \in LastSuggs :
            (e.ch # PLACEHOLDER_CHAR /\ last.gImp[<<e.src, e.tgt>>] # e.ch)
            => WrittenChar(e.src, e.tgt) \in {e.ch, "x"}

\* C7 as stated: in a call without force_apply, when a directional suggestion
\* is applied at (A,B), the reverse cell (B,A) receives the reciprocal
\* character only if it does not hold n and holds a character of lower
\* priority; a reverse cell holding n stays n.
C7_ReciprocalGuard ==
    (Done /\ ~last.force /\ Len(last.suggs) = 1) =>
        LET e == last.suggs[1]
            rev == <<e.tgt, e.src>>
        IN  (/\ e.ch \in {"<", ">"}
             /\ last.gSugg[rev] # last.gImp[rev]
             /\ last.gSugg[rev] = ReciprocalOf(e.ch))
            => /\ last.gImp[rev] # "n"
               /\ get_priority(last.gImp[rev]) < get_priority(last.gSugg[rev])

\* pairs <<D, K>> of final keys, D a directory and K's path under D's path
AncestorPairs ==
    {c \in (DOMAIN last.defs) \X (DOMAIN last.defs) :
        /\ c[1] # c[2]
        /\ is_directory(last.defs[c[1]])
        /\ is_subpath(last.defs[c[2]], last.defs[c[1]])}

\* pairs of distinct final keys neither of which lies under the other
UnrelatedPairs ==
    {c \in (DOMAIN last.defs) \X (DOMAIN last.defs) :
        /\ c[1] # c[2]
        /\ ~is_subpath(last.defs[c[2]], last.defs[c[1]])
        /\ ~is_subpath(last.defs[c[1]], last.defs[c[2]])}

Swap(c) == <<c[2], c[1]>>

C9_DocDefaultN ==
    (Written /\ last.type = "doc" /\ last.suggs = << >>) =>
        \A c \in UnrelatedPairs :
            (last.gMig[c] = PLACEHOLDER_CHAR /\ last.gMig[Swap(c)] = PLACEHOLDER_CHAR)
            => (WrittenChar(c[1], c[2]) = "n" /\ WrittenChar(c[2], c[1]) = "n")

\* C9 amended: after a doc tracker update with no suggestions, any two
\* distinct final keys not in an ancestor relationship, at least one of them
\* a directory, whose two cells were p after grid migration hold n in both
\* cells once the structural step has run, and n or a character of higher
\* priority in the written file; two unrelated files are left at p by the
\* structural step.
C9_DocDefaultNFromDirectories ==
    (Written /\ last.type = "doc" /\ last.suggs = << >>) =>
        \A c \in UnrelatedPairs :
            (last.gMig[c] = PLACEHOLDER_CHAR /\ last.gMig[Swap(c)] = PLACEHOLDER_CHAR)
            => IF is_directory(last.defs[c[1]]) \/ is_directory(last.defs[c[2]])
               THEN /\ last.gStruct[c] = "n"
                    /\ get_priority(WrittenChar(c[1], c[2])) >= get_priority("n")
               ELSE last.gStruct[c] = PLACEHOLDER_CHAR

\* C9 witness: a doc update without suggestions wrote n in both cells of two
\* unrelated directories and of an unrelated directory and file
C9_Witness ==
    /\ Written
    /\ last.type = "doc"
    /\ last.suggs = << >>
    /\ \E c \in UnrelatedPairs, e \in UnrelatedPairs :
         /\ is_directory(last.defs[c[1]]) /\ is_directory(last.defs[c[2]])
         /\ is_directory(last.defs[e[1]]) /\ ~is_directory(last.defs[e[2]])
         /\ \A cell \in {c, Swap(c), e, Swap(e)} :
              /\ last.gMig[cell] = PLACEHOLDER_CHAR
              /\ WrittenChar(cell[1], cell[2]) = "n"

\* C10 as stated: in a doc tracker update without force_apply, for unrelated
\* directories A and B whose cell (A,B) was p in the prior grid, a suggestion
\* (A->B, c), c not p and not n, ends with c or a character of higher
\* priority, not n, in the written cell.
C10_DocSuggestionBeatsDefault ==
    (Written /\ last.type = "doc" /\ ~last.force) =>
        \A e \in LastSuggs :
            (/\ <<e.src, e.tgt>> \in UnrelatedPairs
             /\ is_directory(last.defs[e.src]) /\ is_directory(last.defs[e.tgt])
             /\ last.gMig[<<e.src, e.tgt>>] = PLACEHOLDER_CHAR
             /\ e.ch \notin {PLACEHOLDER_CHAR, "n"})
            => /\ WrittenChar(e.src, e.tgt) # "n"
               /\ get_priority(WrittenChar(e.src, e.tgt)) >= get_priority(e.ch)

\* keys of the most recent call's module in the current global map
InternalKeys == {newMap[p] : p \in InternalPaths(newMap, ModuleOf(last.t))}

\* every path of the prior file has the same key in the current global map
PriorKeysUnchanged ==
    \A k \in DOMAIN last.prior.keys : Get(newMap, last.prior.keys[k]) = k

\* foreign file keys of the prior mini tracker that no suggestion mentions
QuietForeignFileKeys ==
    {k \in DOMAIN last.prior.keys \ InternalKeys :
        /\ _is_file_key(k)
        /\ \A i \in 1..Len(last.raw) : last.raw[i].src # k /\ last.raw[i].tgt # k}

\* the two cells of the prior file between keys a and b
PriorCells(a, b) == {PriorChar(a, b), PriorChar(b, a)}

InternalFileKeys == {k \in InternalKeys \cap DOMAIN last.prior.keys : _is_file_key(k)}

\* C11: in a mini tracker update with unchanged keys, a foreign file key K
\* that no suggestion mentions stays a key when a cell between K and an
\* internal file key holds <; it is not a key after the update when every
\* cell between K and the internal file keys is p or n, whatever its cells
\* with directory keys hold.
C11_ForeignRetention ==
    (Done /\ last.type = "mini" /\ last.prior.exists /\ PriorKeysUnchanged) =>
        \A k \in QuietForeignFileKeys :
            /\ (\E i \in InternalFileKeys : "<" \in PriorCells(i, k))
                    => k \in DOMAIN last.defs
            /\ (\A i \in InternalFileKeys : PriorCells(i, k) \subseteq {"p", "n"})
                    => k \notin DOMAIN last.defs

\* C11 witness: a mini tracker update kept a foreign file key for its < link
\* with an internal file and wrote the tracker
C11_Witness ==
    /\ Written /\ last.type = "mini" /\ PriorKeysUnchanged
    /\ \E k \in QuietForeignFileKeys :
         /\ \E i \in InternalFileKeys : PriorChar(i, k) = "<"
         /\ k \in DOMAIN disk[last.t].keys

\* the tracker files as the consolidation step of the most recent call read
\* them: the disk before the call, with the file the call created if any
DiskAtAggregation ==
    [disk EXCEPT ![last.t] = IF last.prior.exists THEN last.prior
                             ELSE CreatedFile(last.defs, last.keysList)]

\* a path with both an old and a new key in the migration map
StableIn(pmi, p) == p \in DOMAIN pmi /\ pmi[p][1] # NONE /\ pmi[p][2] # NONE

\* the characters the tracker files of d hold for the ordered pair of paths
\* <<P, Q>>, each file read through its own key definitions
HeldAt(d, P, Q) ==
    UNION { {FileChar(d[t], k[1], k[2]) :
                k \in {x \in (DOMAIN d[t].keys) \X (DOMAIN d[t].keys) :
                          /\ x[1] # x[2]
                          /\ d[t].keys[x[1]] = P
                          /\ d[t].keys[x[2]] = Q}}
            : t \in find_all_tracker_paths(d) } \ {NONE}

\* C12 as stated: every link of the aggregation result carries the
\* highest-priority character that any tracker holds for the pair of paths of
\* its two current keys, and every ordered pair of stable paths for which some
\* tracker holds a character is a link of the result.
C12_AggregatedIsHighest ==
    Done =>
        /\ \A l \in DOMAIN last.links :
             LET held == HeldAt(DiskAtAggregation, PathOfKey(newMap, l[1]),
                                PathOfKey(newMap, l[2]))
             IN  /\ last.links[l][1] \in held
                 /\ \A c \in held : get_priority(c) <= get_priority(last.links[l][1])
        /\ \A P \in DOMAIN last.pmi, Q \in DOMAIN last.pmi :
             (/\ P # Q
              /\ StableIn(last.pmi, P) /\ StableIn(last.pmi, Q)
              /\ HeldAt(DiskAtAggregation, P, Q) \ {DIAGONAL_CHAR, EMPTY_CHAR} # {})
             => <<newMap[P], newMap[Q]>> \in DOMAIN last.links

\* C13 as stated: the aggregation result of a call, characters and origin
\* sets, is the same for every order in which the set of tracker paths is
\* iterated, also when two trackers hold different characters of equal
\* priority for one link.
C13_AggregatorDeterministic ==
    Done =>
        \A order \in IterOrders :
            aggregate_all_dependencies(DiskAtAggregation,
                                       ExistingTrackers(DiskAtAggregation, order),
                                       last.pmi) = last.links

\* C14: both keys of every link of the aggregation result are the new keys of
\* paths that have an old and a new key in the migration map, and each
\* tracker of the link's origin set holds the link's character in the cell of
\* the two old keys; cells of keys of removed paths, and of keys that are no
\* old key, are behind no link.
C14_LinksBetweenStablePaths ==
    Done =>
        \A l \in DOMAIN last.links :
            \E P \in DOMAIN last.pmi, Q \in DOMAIN last.pmi :
                /\ StableIn(last.pmi, P) /\ StableIn(last.pmi, Q)
                /\ last.pmi[P][2] = l[1] /\ last.pmi[Q][2] = l[2]
                /\ \A t \in last.links[l][2] :
                     FileChar(DiskAtAggregation[t], last.pmi[P][1], last.pmi[Q][1])
                        = last.links[l][1]

\* C14 witness: a tracker read by the aggregation holds > in a cell of the key
\* of a removed path, and the result has links
C14_Witness ==
    /\ Done
    /\ DOMAIN last.links # {}
    /\ \E t \in find_all_tracker_paths(DiskAtAggregation) :
         \E k \in DOMAIN DiskAtAggregation[t].keys,
            k2 \in DOMAIN DiskAtAggregation[t].keys :
             /\ DiskAtAggregation[t].keys[k] \in DOMAIN last.pmi
             /\ last.pmi[DiskAtAggregation[t].keys[k]][2] = NONE
             /\ FileChar(DiskAtAggregation[t], k, k2) = ">"

\* C15: the migration map of a call has an entry for exactly the paths of the
\* old and the new global map; the old key of an entry is set, to the path's
\* old key, exactly when the path is in the old map, and the new key, to the
\* path's new key, exactly when the path is in the new map; with no old map
\* every entry is <<NONE, new key>>.
C15_MigrationMapPartition ==
    Done =>
        /\ DOMAIN last.pmi = DOMAIN oldMap \cup DOMAIN newMap
        /\ \A p \in DOMAIN last.pmi :
             /\ last.pmi[p][1] = (IF p \in DOMAIN oldMap THEN oldMap[p] ELSE NONE)
             /\ last.pmi[p][2] = (IF p \in DOMAIN newMap THEN newMap[p] ELSE NONE)
             /\ last.pmi[p] # <<NONE, NONE>>
        /\ DOMAIN oldMap = {} =>
             \A p \in DOMAIN newMap : last.pmi[p] = <<NONE, newMap[p]>>

\* C15 witness: the migration map of a call has a stable, a removed and an
\* added path
C15_Witness ==
    /\ Done
    /\ \E p \in DOMAIN last.pmi, q \in DOMAIN last.pmi, r \in DOMAIN last.pmi :
         /\ StableIn(last.pmi, p)
         /\ last.pmi[q][1] # NONE /\ last.pmi[q][2] = NONE
         /\ last.pmi[r][1] = NONE /\ last.pmi[r][2] # NONE

\* the tracker files before the most recent call
DiskBefore == [disk EXCEPT ![last.t] = last.prior]

\* the grid after the structural step, taken through the suggestion step and
\* then through the import step
SuggestionsThenImport ==
    ImportGrid(DiskAtAggregation, last.type, ModuleOf(last.t),
               ApplySuggestions([g |-> last.gStruct, raised |-> FALSE],
                                last.suggs, 1, last.force,
                                col_key_bound(last.type,
                                              read_tracker_file(DiskBefore, last.t),
                                              last.defs)).g,
               DOMAIN last.defs, last.defs)

TypeRank(t) == CASE TypeOf(t) = "mini" -> 1 [] TypeOf(t) = "doc" -> 2 [] OTHER -> 3

\* C17: in a run the log of tracker updates has every mini tracker update
\* before the doc tracker update and the doc tracker update before the main
\* tracker update, a mini tracker update is still to come only while the run
\* is in its mini phase, and a finished run has attempted the update of every
\* module's mini tracker, of the doc tracker and of the main tracker, whether
\* or not an earlier one failed.
C17_RunOrder ==
    /\ \A i \in 1..Len(run.log), j \in 1..Len(run.log) :
         i < j => TypeRank(run.log[i].t) <= TypeRank(run.log[j].t)
    /\ run.pending # {} => (run.phase = "mini" /\ \A i \in 1..Len(run.log) :
                                                    TypeOf(run.log[i].t) = "mini")
    /\ run.phase = "done" =>
         {run.log[i].t : i \in 1..Len(run.log)}
            = {MiniTrackerOf(m) : m \in potential_mini_tracker_dirs(newMap)}
              \cup {"doc", "main"}

\* C17 witness: a finished run whose first mini tracker update failed and
\* whose doc and main tracker updates succeeded
C17_Witness ==
    /\ run.phase = "done"
    /\ Len(run.log) = 4
    /\ ~run.log[1].ok
    /\ run.log[3] = [t |-> "doc", ok |-> TRUE]
    /\ run.log[4] = [t |-> "main", ok |-> TRUE]

\* the globally winning character of the most recent call for a cell, p when
\* the aggregation has no link for it
GlobalWinner(c) == IF c \in DOMAIN last.links THEN last.links[c][1] ELSE PLACEHOLDER_CHAR

OffDiagonal == {c \in (DOMAIN last.defs) \X (DOMAIN last.defs) : c[1] # c[2]}

\* C18: consolidation replaces an off-diagonal cell by the globally winning
\* character exactly when that character has strictly higher priority than
\* the local one, or is n while the local one is p, s or S, and leaves every
\* other cell unchanged; no cell of the written file has lower priority than
\* the global winner of its pair.
C18_ConsolidationRule ==
    Written =>
        \A c \in OffDiagonal :
            /\ last.gCons[c] =
                 IF \/ get_priority(GlobalWinner(c)) > get_priority(last.gSugg[c])
                    \/ (GlobalWinner(c) = "n" /\ last.gSugg[c] \in {"p", "s", "S"})
                 THEN GlobalWinner(c)
                 ELSE last.gSugg[c]
            /\ get_priority(WrittenChar(c[1], c[2])) >= get_priority(GlobalWinner(c))

\* C18 witness: a call replaced one cell by a stronger global winner and kept
\* another cell against a different global winner of equal priority
C18_Witness ==
    /\ Written
    /\ \E c \in OffDiagonal, e \in OffDiagonal :
         /\ last.gCons[c] # last.gSugg[c]
         /\ WrittenChar(c[1], c[2]) = GlobalWinner(c)
         /\ GlobalWinner(e) # last.gSugg[e]
         /\ get_priority(GlobalWinner(e)) = get_priority(last.gSugg[e])
         /\ WrittenChar(e[1], e[2]) = last.gSugg[e]


\* a key of the most recent call's tracker that lies in the tracker's module
NativeKey(k) ==
    \/ parent_path(last.defs[k]) = ModuleOf(last.t)
    \/ last.defs[k] = ModuleOf(last.t)

\* the home tracker of a cell of the most recent call's tracker, NONE for a
\* cell between two native keys
HomeOfCell(c) ==
    IF NativeKey(c[1]) /\ NativeKey(c[2]) THEN NONE
    ELSE IF NativeKey(c[1]) THEN NativeForeignHome(last.defs[c[2]])
    ELSE IF NativeKey(c[2]) THEN NativeForeignHome(last.defs[c[1]])
    ELSE ForeignForeignHome(last.defs[c[1]], last.defs[c[2]], ModuleOf(last.t))

\* the cells of the most recent call's tracker whose home tracker was read
HomeCells ==
    {c \in OffDiagonal :
        HomeUsable(DiskAtAggregation, HomeOfCell(c), last.defs[c[1]], last.defs[c[2]])}

\* the home tracker's character for a cell with a readable home tracker
HomeValue(c) ==
    HomeChar(DiskAtAggregation[HomeOfCell(c)], last.defs[c[1]], last.defs[c[2]])

\* the rule of replacement by membership: an overwritable local character
\* takes a positive home character, a local p, s or S takes a home n
ReplacedBySets(local_char, home_char) ==
    \/ local_char \in OVERWRITABLE_CHARS /\ home_char \in POSITIVE_IMPORT_CHARS
    \/ local_char \in {"p", "s", "S"} /\ home_char = "n"

\* C19 as stated: in a mini tracker update, for a native/foreign or a
\* foreign/foreign cell whose home tracker is read, the import step replaces
\* the local character by the home tracker's character if and only if the
\* local character is p, s, S or n and the home character is <, >, x or d, or
\* the local character is p, s or S and the home character is n; a home
\* character s or S is never imported.
C19_ImportBySets ==
    (Done /\ last.type = "mini") =>
        \A c \in HomeCells :
            (last.gImp[c] # last.gStruct[c] /\ last.gImp[c] = HomeValue(c))
                <=> ReplacedBySets(last.gStruct[c], HomeValue(c))


\* the cells between two foreign keys of the most recent call's tracker
ForeignPairs == {c \in OffDiagonal : ~NativeKey(c[1]) /\ ~NativeKey(c[2])}

\* C20 as stated: after a mini tracker update, every cell between two foreign
\* keys that held p before the import step and for which no home tracker
\* holds a character other than p -- the pair has no shared home tracker, or
\* is not defined in it, or the home tracker holds p -- holds n after the
\* import step.
C20_ForeignPairsDefaultN ==
    (Done /\ last.type = "mini") =>
        \A c \in ForeignPairs :
            (/\ last.gStruct[c] = PLACEHOLDER_CHAR
             /\ (c \in HomeCells => HomeValue(c) = PLACEHOLDER_CHAR))
                => last.gImp[c] = "n"


\* C21 as stated: a process that reads a tracker file while it is being
\* written, or after the writing process was killed in the middle of the
\* write, reads either the complete content the file had before the write or
\* the complete content the write produces, never an empty or partly written
\* file.
C21_AllOrNothing ==
    (seen.f # NONE /\ seen.w.pc \in {"open", "killed"} /\ seen.w.f = seen.f)
        => seen.lines \in {seen.w.pre, seen.w.post}

\* a file holding a marker pair: the lines up to and including the start
\* marker and the lines from the end marker on
Preamble(lines) == SubSeq(lines, 1, FirstIndex(lines, marker_start))
Postamble(lines) == SubSeq(lines, FirstIndex(lines, marker_end), Len(lines))

\* C24 as stated: a completed write to a mini tracker file that held a marker
\* pair, by update_tracker or by write_tracker_file, leaves the lines up to
\* and including the start marker and the lines from the end marker on as
\* they were.
C24_OutsideMarkersKept ==
    (/\ writer.pc = "closed"
     /\ TypeOf(writer.f) = "mini"
     /\ MarkersFound(writer.pre))
        => /\ MarkersFound(text[writer.f])
           /\ Preamble(text[writer.f]) = Preamble(writer.pre)
           /\ Postamble(text[writer.f]) = Postamble(writer.pre)


\* position of the first write in the operations of a call, 0 when it did
\* not write
FirstWrite(ops) ==
    IF \E i \in 1..Len(ops) : ops[i].op = "write"
    THEN CHOOSE i \in 1..Len(ops) :
            ops[i].op = "write" /\ \A j \in 1..(i - 1) : ops[j].op # "write"
    ELSE 0

\* C22 as stated: when the tracker file existed at the start of an
\* update_tracker call and the call wrote to it, a backup holding the file's
\* content from before the call was made before the first write, also when
\* the read of the file or the backup copy failed.
C22_BackupBeforeWrite ==
    (events.f # NONE /\ events.pre # << >> /\ FirstWrite(events.log) > 0)
        => \E i \in 1..(FirstWrite(events.log) - 1) :
              /\ events.log[i].op = "backup"
              /\ events.log[i].content = events.pre

\* the timestamps of the backups a tracker file has in the backups directory
BackupsOf(p) == {b.ts : b \in {c \in backups : c.of = p}}

\* the timestamps of the backups ever created of a tracker file
MadeOf(p) == {m[2] : m \in {x \in made : x[1] = p}}

\* C23 as stated: the backups directory holds for each tracker file at most
\* two backups, and they are the most recently created backups of that
\* tracker file, also for tracker files of different directories that share
\* a base name.
C23_TwoNewestPerFile ==
    \A p \in BackupPaths :
        BackupsOf(p) = {ts \in MadeOf(p) :
                           Cardinality({u \in MadeOf(p) : u > ts}) < 2}


\* the run ended on a failed key generation or a failed migration map build
FatalFailure ==
    /\ analysis.phase = "done"
    /\ analysis.keysFail \/ DuplicatePaths(analysis.old, analysis.new)

\* C26: when key generation fails or the migration map cannot be built for a
\* duplicate path in the old or the new global map, analyze_project ends with
\* status error and has created, backed up and written no tracker file; and
\* an update_tracker call whose own migration map build fails performs no
\* file operation.
C26_FatalMapFailures ==
    /\ FatalFailure =>
          /\ analysis.status = "error"
          /\ analysis.touched = {}
          /\ analysis.report = << >>
    /\ (events.f # NONE /\ events.mapFails) => events.log = << >>

C26_Witness ==
    /\ FatalFailure
    /\ ~analysis.keysFail
    /\ events.f # NONE /\ events.mapFails /\ events.pre # << >>

\* C25 as stated: a tracker whose update in analyze_project met an I/O error
\* while reading, backing up or writing is recorded as a failure, the other
\* trackers are still updated, and the run ends with status warning.
C25_IOFailureReported ==
    /\ \A p \in analysis.io : analysis.report[p] = "failure"
    /\ (analysis.phase = "done" /\ analysis.io # {}) =>
          /\ analysis.status = "warning"
          /\ DOMAIN analysis.report = BackupPaths


\* the row of key k handed to the most recent write_tracker_file call has to
\* be rebuilt: it is missing or does not decompress to the number of keys
NeedsRepair(k) ==
    \/ k \notin DOMAIN wcall.grid
    \/ Len(decompress(wcall.grid[k])) # Cardinality(DOMAIN WriteDefs)

\* the grid of the call with the rows to rebuild replaced by initial rows
RepairedGrid ==
    LET keysList == sort_key_strings_hierarchically(DOMAIN WriteDefs)
    IN  [k \in DOMAIN WriteDefs |->
            IF NeedsRepair(k) THEN compress(InitialRow(keysList, k))
            ELSE wcall.grid[k]]

\* C27 as stated: write_tracker_file writes the file with every missing or
\* wrong-length row replaced by a row of p with o at the diagonal, and
\* rejects the write, leaving the file as it was, only when the grid breaks
\* T1/T2 after this repair.
C27_RepairThenValidate ==
    wcall.f # NONE =>
        LET keysList == sort_key_strings_hierarchically(DOMAIN WriteDefs)
        IN  IF validate_grid(RepairedGrid, keysList)
            THEN /\ wcall.ok
                 /\ disk[wcall.f].exists
                 /\ disk[wcall.f].grid = RepairedGrid
            ELSE ~wcall.ok /\ disk[wcall.f] = wcall.before


\* the key set of the tracker differs from the one the prior file defined
KeysChanged == DOMAIN last.defs # DOMAIN last.prior.keys

\* the carried cells that are written with another character than the prior
\* file held at the same pair of paths, as <<new row key, new column key>>
ChangedCells ==
    {<<newMap[last.prior.keys[c[1]]], newMap[last.prior.keys[c[2]]]>> :
        c \in {d \in CarriedCells :
                 WrittenChar(newMap[last.prior.keys[d[1]]],
                             newMap[last.prior.keys[d[2]]]) # PriorChar(d[1], d[2])}}

\* the cells a suggestion of the call addresses, forward and reverse
SuggestedCells ==
    UNION {{<<last.suggs[i].src, last.suggs[i].tgt>>,
            <<last.suggs[i].tgt, last.suggs[i].src>>} : i \in 1..Len(last.suggs)}

\* the only change of the call was a force-applied suggestion
OnlyForcedSuggestion ==
    /\ last.force
    /\ ~KeysChanged
    /\ ChangedCells # {}
    /\ ChangedCells \subseteq SuggestedCells

\* C28 as stated: after an update of an existing tracker, last_GRID_edit is
\* the manual message if the only change was a force-applied suggestion,
\* otherwise the content message if any cell differs from the prior grid at
\* the same pair of paths, whichever step changed it, otherwise the
\* structure message if the key set changed, and otherwise it is unchanged.
C28_LastGridEdit ==
    (Written /\ last.prior.exists) =>
        last.gridEdit = IF OnlyForcedSuggestion THEN "manual"
                        ELSE IF ChangedCells # {} THEN "content"
                        ELSE IF KeysChanged THEN "structure"
                        ELSE "unchanged"


\* C29 as stated: a read_tracker_file call and an aggregate_all_dependencies
\* call return what the tracker files hold at the time of the call, never a
\* result memoized before a write of update_tracker or write_tracker_file.
C29_CacheCoherence ==
    (seen.f # NONE /\ seen.w = NoWriter) => seen.lines = seen.fresh


\* a remove-key command has returned
Removed == wcall.f # NONE /\ wcall.ok

\* C30 as stated: after remove_key_from_tracker(f, k) has returned for a key
\* k that f defined, f holds k neither in its key definitions nor as a row
\* or column of its grid, and no other tracker file was written.
C30_KeyRemoved ==
    Removed =>
        /\ wcall.key \notin DOMAIN disk[wcall.f].keys
        /\ wcall.key \notin DOMAIN disk[wcall.f].grid
        /\ \A r \in DOMAIN disk[wcall.f].grid :
              Len(decompress(disk[wcall.f].grid[r]))
                  = Cardinality(DOMAIN disk[wcall.f].keys)
        /\ \A u \in Trackers \ {wcall.f} : disk[u] = wcall.before[u]

----------------------------------------------------------------------------
(* The suggestion step, one suggestion at a time *)

\* the grid after the first i suggestions of the last call were processed
GridAfterSuggestions(i) ==
    ApplySuggestions([g |-> last.gImp, raised |-> FALSE, applied |-> FALSE,
                      manual |-> FALSE],
                     SubSeq(last.suggs, 1, i), 1, last.force, TRUE).g

\* C31: in a call without force_apply, a suggestion (A->B, c) changes cell
\* (A,B) only if the cell is p and c is not p, or the cell is neither o nor
\* p, differs from c, is not n and has lower priority than c; and whatever
\* the suggestion changes, in its own cell or in the reverse cell, is
\* replaced by a character of strictly higher priority, all other cells
\* staying as they were.
C31_NonForcedSuggestionRule ==
    (Done /\ ~last.force) =>
        \A i \in 1..Len(last.suggs) :
            LET e == last.suggs[i]
                before == GridAfterSuggestions(i - 1)
                after == GridAfterSuggestions(i)
                fwd == <<e.src, e.tgt>>
                rev == <<e.tgt, e.src>>
            IN  /\ after[fwd] # before[fwd] =>
                     \/ (before[fwd] = "p" /\ e.ch # "p")
                     \/ /\ before[fwd] \notin {"o", "p"}
                        /\ before[fwd] # e.ch
                        /\ before[fwd] # "n"
                        /\ get_priority(e.ch) > get_priority(before[fwd])
                /\ \A cell \in DOMAIN before :
                     after[cell] # before[cell] =>
                        /\ cell \in {fwd, rev}
                        /\ get_priority(after[cell]) > get_priority(before[cell])
                /\ i = Len(last.suggs) =>
                     \A cell \in DOMAIN before : after[cell] = last.gSugg[cell]

\* a non-forced call in which a suggestion replaced a weaker relation in its
\* own cell and another character in the reverse cell
C31_Witness ==
    /\ Done
    /\ ~last.force
    /\ \E i \in 1..Len(last.suggs) :
         LET e == last.suggs[i]
             before == GridAfterSuggestions(i - 1)
             after == GridAfterSuggestions(i)
         IN  /\ before[<<e.src, e.tgt>>] \notin {"o", "p"}
             /\ after[<<e.src, e.tgt>>] # before[<<e.src, e.tgt>>]
             /\ after[<<e.tgt, e.src>>] # before[<<e.tgt, e.src>>]

\* C32 as stated: a call for the main tracker with force_apply and a
\* suggestion (A->B, c) between two keys of the main tracker, c not p and the
\* cell different from c, completes without error and writes a main tracker
\* whose cell (A,B) holds c.
C32_ForcedMainWritten ==
    (Done /\ last.type = "main" /\ last.force) =>
        \A e \in LastSuggs :
            (e.ch # PLACEHOLDER_CHAR /\ last.gImp[<<e.src, e.tgt>>] # e.ch)
            => /\ ~last.raised
               /\ Written
               /\ WrittenChar(e.src, e.tgt) = e.ch

\* the candidates of the prior grid for the cell c of the migrated grid
CollidingSources(c) ==
    {s \in MigrationSources(last.prior, last.pmi) : s[1] = c[1] /\ s[2] = c[2]}

\* C33 as stated: when two cells of the prior grid map to the same cell of
\* the new grid, the migrated grid holds there a value of the highest
\* priority among them.
C33_CollisionKeepsHighest ==
    (Done /\ last.prior.exists) =>
        \A c \in DOMAIN last.gMig :
            (c[1] # c[2] /\ Cardinality(CollidingSources(c)) >= 2) =>
                \A s \in CollidingSources(c) :
                    get_priority(last.gMig[c]) >= get_priority(s[5])

\* a merge of two non-empty tracker files was made
Merged ==
    /\ wcall.f # NONE
    /\ DOMAIN wcall.before.keys # {}
    /\ DOMAIN wcall.secondary.keys # {}

\* what the merged file must hold at (r, c) given the two inputs
MergedChar(r, c) ==
    LET primary_val == FileChar(wcall.before, r, c)
        secondary_val == FileChar(wcall.secondary, r, c)
    IN  IF r = c THEN DIAGONAL_CHAR
        ELSE IF primary_val \notin {NONE, PLACEHOLDER_CHAR} THEN primary_val
        ELSE IF secondary_val \notin {NONE, PLACEHOLDER_CHAR} THEN secondary_val
        ELSE PLACEHOLDER_CHAR

GridAfterExchanged ==
    ApplySuggestions([g |-> last.gImp, raised |-> FALSE, applied |-> FALSE,
                      manual |-> FALSE],
                     <<last.suggs[2], last.suggs[1]>>, 1, last.force, TRUE).g

\* C35 as stated: when a non-forced call carries (A->B, <) and (B->A, <) and
\* both cells were p, both cells hold x in the written file, and the
\* suggestion step gives the same two cells with the suggestions exchanged.
C35_MutualFromTwoSuggestions ==
    (Written /\ ~last.force /\ Len(last.suggs) = 2) =>
        LET e == last.suggs[1]
            fwd == <<e.src, e.tgt>>
            rev == <<e.tgt, e.src>>
        IN  (/\ e.ch = "<"
             /\ last.suggs[2] = Sugg(rev, "<")
             /\ PriorChar(e.src, e.tgt) = PLACEHOLDER_CHAR
             /\ PriorChar(e.tgt, e.src) = PLACEHOLDER_CHAR
             /\ last.gImp[fwd] = PLACEHOLDER_CHAR
             /\ last.gImp[rev] = PLACEHOLDER_CHAR)
            => /\ WrittenChar(e.src, e.tgt) = "x"
               /\ WrittenChar(e.tgt, e.src) = "x"
               /\ GridAfterExchanged[fwd] = last.gSugg[fwd]
               /\ GridAfterExchanged[rev] = last.gSugg[rev]

C37_NoMisattribution ==
    Done =>
        \A l \in DOMAIN last.links :
            last.links[l][1] \in HeldAt(DiskAtAggregation,
                                        PathOfKey(newMap, l[1]),
                                        PathOfKey(newMap, l[2]))

\* the layout of a mini tracker made from the template: the template, the
\* start marker, the managed block, the end marker, in that order
TemplateLayout(lines) ==
    /\ MarkersFound(lines)
    /\ Len(lines) >= Len(Template)
    /\ SubSeq(lines, 1, Len(Template)) = Template
    /\ FirstIndex(lines, marker_start) > Len(Template)
    /\ \E i \in 1..Len(lines) :
          /\ lines[i][1] = "keys"
          /\ FirstIndex(lines, marker_start) < i
          /\ i < FirstIndex(lines, marker_end)

\* C38: a mini tracker file that update_tracker created holds the template
\* preamble, the start marker, the managed block and the end marker in that
\* order at the end of the creating call, and still does after later updates
C38_CreatedMiniKeepsTemplate ==
    \A m \in made : TypeOf(m[1]) = "mini" => TemplateLayout(text[m[1]])

\* the paths of the module of the most recent call's mini tracker
InternalPathsOfLast == InternalPaths(newMap, ModuleOf(last.t))

\* ordered pairs <<internal key, foreign key>> of the prior mini tracker,
\* both file keys, with a cell between them that is not n and has the
\* priority of s at least, both paths stable, and one of the two paths under
\* another key string in the new global map
RekeyedForeignLinks ==
    {c \in (DOMAIN last.prior.keys) \X (DOMAIN last.prior.keys) :
        /\ last.prior.keys[c[1]] \in InternalPathsOfLast
        /\ last.prior.keys[c[2]] \notin InternalPathsOfLast
        /\ _is_file_key(c[1]) /\ _is_file_key(c[2])
        /\ \E ch \in PriorCells(c[1], c[2]) :
              ch \notin {NONE, "n"} /\ get_priority(ch) >= min_positive_priority
        /\ StablePath(last.prior.keys[c[1]])
        /\ StablePath(last.prior.keys[c[2]])
        /\ \/ newMap[last.prior.keys[c[1]]] # c[1]
           \/ newMap[last.prior.keys[c[2]]] # c[2]}

\* foreign paths the prior mini tracker links to an internal file, by path
LinkedForeignPaths ==
    {last.prior.keys[kf] : kf \in
        {k \in DOMAIN last.prior.keys :
            /\ last.prior.keys[k] \notin InternalPathsOfLast
            /\ \E ki \in DOMAIN last.prior.keys :
                  /\ last.prior.keys[ki] \in InternalPathsOfLast
                  /\ \E ch \in PriorCells(ki, k) :
                        ch \notin {NONE, "n"}
                        /\ get_priority(ch) >= min_positive_priority}}

\* C39: when the prior mini tracker links an internal file and a foreign file
\* (a cell of priority s at least, not n), both paths stable, and the new
\* global map gives one of them another key string, the written tracker still
\* defines the foreign path, under its new key, and defines no foreign path
\* that was neither linked nor suggested
C39_ForeignRetainedByPath ==
    (Written /\ last.type = "mini" /\ last.prior.exists) =>
        \A c \in RekeyedForeignLinks :
            /\ Get(disk[last.t].keys, newMap[last.prior.keys[c[2]]])
                  = last.prior.keys[c[2]]
            /\ \A k \in DOMAIN disk[last.t].keys :
                  \/ disk[last.t].keys[k] \in InternalPathsOfLast
                  \/ disk[last.t].keys[k] \in LinkedForeignPaths
                  \/ \E i \in 1..Len(last.raw) : k \in {last.raw[i].src, last.raw[i].tgt}

\* no cell of the tracker files d holds n
NoVerifiedNo(d) ==
    \A t \in Trackers :
        \A k \in DOMAIN d[t].grid :
            \A j \in 1..Len(decompress(d[t].grid[k])) :
                decompress(d[t].grid[k])[j] # "n"

\* the mini trackers that hold n between two keys whose paths are native to
\* the tracker's own module
NativeVerifiedNo ==
    {t \in {"mini_src", "mini_lib"} :
        \E k1, k2 \in DOMAIN disk[t].keys :
            /\ k1 # k2
            /\ disk[t].keys[k1] \in InternalPaths(newMap, ModuleOf(t))
            /\ disk[t].keys[k2] \in InternalPaths(newMap, ModuleOf(t))
            /\ FileChar(disk[t], k1, k2) = "n"}

\* C40: when no tracker holds n at the start and the analysis suggests no n,
\* then after any number of analyze_project runs no mini tracker holds n
\* between two keys native to its own module
C40_NoManufacturedN ==
    (/\ NoVerifiedNo(run.initial)
     /\ \A t \in Trackers : \A i \in 1..Len(run.suggs[t]) : run.suggs[t][i].ch # "n")
        => NativeVerifiedNo = {}

====
